---- MODULE Spec2Model ----
(***************************************************************************)
(* Despair Blocker: the blocking decision of the background service worker *)
(* (src/configuration/background.js), the overlay injected into a page     *)
(* (blockPage) and the content script that watches the page                *)
(* (src/worker/content.js).                                                *)
(***************************************************************************)
EXTENDS Integers, Sequences, FiniteSets, TLC

VARIABLES
    storage,    \* chrome.storage.sync: config, temporaryDisabled, temperaryDisabled
    popup,      \* the popup document: [open, isBlocking]
    dec,        \* the outcome of the last shouldBlockCurrentSite call
    tab,        \* the browser tab: its session history [hist, idx]
    overlays,   \* elements with id despair-blocker-overlay, in document order
    createdAt,  \* dataset.createdAt of each attached overlay element
    handlers,   \* overlay elements whose keydown (Escape) listener is registered
    overflow,   \* document.documentElement.style.overflow
    pending,    \* setTimeout callbacks of the background waiting to inject
    outbox,     \* handleUrlChange timeouts (100 ms) of the content script
    now,        \* Date.now(), in milliseconds since the model's start
    nextProbe,  \* the time the 60 s liveness interval fires next
    runtimeOk,  \* the extension runtime is reachable from the page
    lastOp,     \* the handler that ran last, and what it did
    alarms,     \* chrome.alarms: the alarm registered under each name
    worker,     \* the runs of initializeExtension: what each has read so far
    options,    \* the options page: currentConfig, hasUnsavedChanges, backup
    zone        \* the time zone of the host: when its clocks change, by how much

vars == <<storage, popup, dec, tab, overlays, createdAt, handlers, overflow,
          pending, outbox, now, nextProbe, runtimeOk, lastOp, alarms, worker,
          options, zone>>

settingsVars == <<alarms, worker, options, zone>>

decisionVars == <<storage, popup, dec, settingsVars>>

pageVars == <<tab, overlays, createdAt, handlers, overflow, pending, outbox,
              now, nextProbe, runtimeOk, lastOp>>

-----------------------------------------------------------------------------
(* JavaScript values, tagged with their typeof.                            *)

Undef == [t |-> "undefined"]
Bool(b) == [t |-> "boolean", v |-> b]
Str(s) == [t |-> "string", v |-> s]
Num(n) == [t |-> "number", nan |-> FALSE, v |-> n]
NaN == [t |-> "number", nan |-> TRUE, v |-> 0]
Arr(q) == [t |-> "array", v |-> q]
Obj(r) == [t |-> "object", v |-> r]

\* ToBoolean: what `if (x)` and `!x` test.
Truthy(x) ==
    CASE x.t = "undefined" -> FALSE
      [] x.t = "boolean" -> x.v
      [] x.t = "string" -> x.v # ""
      [] x.t = "number" -> ~x.nan /\ x.v # 0
      [] OTHER -> TRUE

\* A completion of a function body: a returned value or a thrown error.
Return(v) == [kind |-> "return", value |-> v]
Throw == [kind |-> "throw", value |-> FALSE]

-----------------------------------------------------------------------------
(* Strings.                                                                *)

UpperCase == "ABCDEFGHIJKLMNOPQRSTUVWXYZ"
LowerCase == "abcdefghijklmnopqrstuvwxyz"
Digits == "0123456789"

CharAt(s, i) == SubSeq(s, i, i)

IndexIn(alphabet, c) ==
    IF \E i \in 1..Len(alphabet) : CharAt(alphabet, i) = c
    THEN CHOOSE i \in 1..Len(alphabet) : CharAt(alphabet, i) = c
    ELSE 0

RECURSIVE toLowerCase(_)
toLowerCase(s) ==
    IF s = "" THEN ""
    ELSE LET c == CharAt(s, 1)
             k == IndexIn(UpperCase, c)
         IN  (IF k = 0 THEN c ELSE CharAt(LowerCase, k))
                 \o toLowerCase(SubSeq(s, 2, Len(s)))

\* String.prototype.includes: t occurs in s at some position.
includes(s, t) ==
    \E i \in 0..(Len(s) - Len(t)) : SubSeq(s, i + 1, i + Len(t)) = t

startsWith(s, t) == Len(t) <= Len(s) /\ SubSeq(s, 1, Len(t)) = t

\* The first position of character c in s, or 0.
IndexOf(s, c) ==
    IF \E i \in 1..Len(s) : CharAt(s, i) = c
    THEN CHOOSE i \in 1..Len(s) :
            CharAt(s, i) = c /\ \A j \in 1..(i - 1) : CharAt(s, j) # c
    ELSE 0

\* String.prototype.split with a one-character separator.
RECURSIVE split(_, _)
split(s, sep) ==
    LET k == IndexOf(s, sep)
    IN  IF k = 0 THEN <<s>>
        ELSE <<SubSeq(s, 1, k - 1)>> \o split(SubSeq(s, k + 1, Len(s)), sep)

RECURSIVE DigitsValue(_, _)
DigitsValue(s, acc) ==
    IF s = "" THEN acc
    ELSE DigitsValue(SubSeq(s, 2, Len(s)),
                     acc * 10 + (IndexIn(Digits, CharAt(s, 1)) - 1))

\* Number(string) on the strings a time field holds: the empty string is 0,
\* a run of decimal digits is its value, anything else is NaN.
Number(s) ==
    IF \A i \in 1..Len(s) : IndexIn(Digits, CharAt(s, i)) # 0
    THEN Num(DigitsValue(s, 0))
    ELSE NaN

\* Arithmetic and comparison of numbers: NaN poisons sums and products and
\* makes every comparison false.
Times(a, b) == IF a.nan \/ b.nan THEN NaN ELSE Num(a.v * b.v)
Plus(a, b) == IF a.nan \/ b.nan THEN NaN ELSE Num(a.v + b.v)
GreaterEq(a, b) == ~a.nan /\ ~b.nan /\ a.v >= b.v
LessEq(a, b) == ~a.nan /\ ~b.nan /\ a.v <= b.v

-----------------------------------------------------------------------------
(* new URL(url).hostname, for the URL shapes the extension meets: a scheme *)
(* of letters, then "//host/..." or an opaque path.  An http(s) URL needs  *)
(* a host; its host is lowercased by the parser.                           *)

SchemeChars == LowerCase \o UpperCase

\* The end of the host: the first "/", "?" or "#" of s, or its length + 1.
HostEnd(s) ==
    IF \E i \in 1..Len(s) : CharAt(s, i) \in {"/", "?", "#"}
    THEN CHOOSE i \in 1..Len(s) :
            /\ CharAt(s, i) \in {"/", "?", "#"}
            /\ \A j \in 1..(i - 1) : CharAt(s, j) \notin {"/", "?", "#"}
    ELSE Len(s) + 1

urlHostname(url) ==
    LET k == IndexOf(url, ":")
    IN  IF k <= 1 \/ \E i \in 1..(k - 1) : IndexIn(SchemeChars, CharAt(url, i)) = 0
        THEN Throw
        ELSE LET scheme == toLowerCase(SubSeq(url, 1, k - 1))
                 rest == SubSeq(url, k + 1, Len(url))
             IN  IF startsWith(rest, "//")
                 THEN LET auth == SubSeq(rest, 3, Len(rest))
                          host == SubSeq(auth, 1, HostEnd(auth) - 1)
                      IN  IF scheme \in {"http", "https"} /\ host = ""
                          THEN Throw
                          ELSE Return(IF scheme \in {"http", "https"}
                                      THEN toLowerCase(host) ELSE host)
                 ELSE IF scheme \in {"http", "https"} THEN Throw
                 ELSE Return("")

-----------------------------------------------------------------------------
(* shouldBlockCurrentSite and its parts.                                   *)

\* const [hours, minutes] = timeString.split(':').map(Number);
\* return hours * 60 + minutes;   (a missing element is undefined: NaN)
parseTimeToMinutes(timeString) ==
    LET parts == split(timeString, ":")
        hours == Number(parts[1])
        minutes == IF Len(parts) >= 2 THEN Number(parts[2]) ELSE NaN
    IN  Plus(Times(hours, Num(60)), minutes)

\* Variant of siteMatches: the entry is looked for in the hostname only.
siteMatchesOneWay(hostname, site) ==
    includes(hostname, toLowerCase(site))

\* hostname.includes(site.toLowerCase()) || site.toLowerCase().includes(hostname)
siteMatches(hostname, site) ==
    \/ includes(hostname, toLowerCase(site))
    \/ includes(toLowerCase(site), hostname)

\* config.blockedSites.some(site => ...): left to right, stopping at the first
\* match; an entry that is no string has no toLowerCase and throws.
RECURSIVE someSiteMatches(_, _)
someSiteMatches(hostname, sites) ==
    IF sites = <<>> THEN Return(FALSE)
    ELSE IF Head(sites).t # "string" THEN Throw
    ELSE IF siteMatches(hostname, Head(sites).v) THEN Return(TRUE)
    ELSE someSiteMatches(hostname, Tail(sites))

\* Array.prototype.includes on workDays.
arrayIncludes(arr, x) == \E i \in 1..Len(arr) : arr[i] = x

\* Variant of inBlockingPeriod: a window whose start is later than its end
\* runs across midnight.
inBlockingPeriodOvernight(currentTime, startTime, endTime) ==
    IF LessEq(startTime, endTime)
    THEN GreaterEq(currentTime, startTime) /\ LessEq(currentTime, endTime)
    ELSE GreaterEq(currentTime, startTime) \/ LessEq(currentTime, endTime)

\* Variant of inBlockingPeriod: the end of the window is exclusive.
inBlockingPeriodExclusive(currentTime, startTime, endTime) ==
    GreaterEq(currentTime, startTime)
        /\ LessEq(currentTime, endTime) /\ ~GreaterEq(currentTime, endTime)

\* currentTime >= startTime && currentTime <= endTime
inBlockingPeriod(currentTime, startTime, endTime) ==
    GreaterEq(currentTime, startTime) /\ LessEq(currentTime, endTime)

\* Lines 229-247: the schedule part, reached once the site has matched.
scheduleCheck(schedule, currentDay, currentTime) ==
    IF schedule.t # "object" THEN Throw
    ELSE IF ~Truthy(schedule.v.enabled) THEN Return(TRUE)
    ELSE IF schedule.v.workDays.t # "array" THEN Throw
    ELSE IF ~arrayIncludes(schedule.v.workDays.v, Num(currentDay)) THEN Return(FALSE)
    ELSE IF schedule.v.startTime.t # "string" \/ schedule.v.endTime.t # "string"
         THEN Throw
    ELSE Return(inBlockingPeriod(Num(currentTime),
                                 parseTimeToMinutes(schedule.v.startTime.v),
                                 parseTimeToMinutes(schedule.v.endTime.v)))

\* Variant of isTemporarilyDisabled: the flag is read under a key that was
\* never written (as popup.js reads temperaryDisabled), so it is undefined.
isTemporarilyDisabledMisspelled(temporaryDisabled) == Truthy(Undef)

\* if (temporaryDisabled) return false;
isTemporarilyDisabled(temporaryDisabled) == Truthy(temporaryDisabled)

\* The body of the try block; readOk is whether chrome.storage.sync.get
\* resolved.
shouldBlockTry(url, st, readOk, currentDay, currentTime) ==
    IF ~readOk THEN Throw
    ELSE IF isTemporarilyDisabled(st.temporaryDisabled) THEN Return(FALSE)
    ELSE IF ~Truthy(st.config) THEN Return(FALSE)
    ELSE LET hostname == urlHostname(url)
         IN  IF hostname.kind = "throw" THEN Throw
             ELSE IF st.config.v.blockedSites.t # "array" THEN Throw
             ELSE LET isBlockedSite ==
                          someSiteMatches(toLowerCase(hostname.value),
                                          st.config.v.blockedSites.v)
                  IN  IF isBlockedSite.kind = "throw" THEN Throw
                      ELSE IF ~isBlockedSite.value THEN Return(FALSE)
                      ELSE scheduleCheck(st.config.v.schedule, currentDay, currentTime)

\* Variant of shouldBlockCurrentSite: a site is blocked only while the alarm
\* blockingStart is registered.
shouldBlockCurrentSiteByAlarms(url, st, readOk, currentDay, currentTime) ==
    LET r == shouldBlockTry(url, st, readOk, currentDay, currentTime)
    IN  IF r.kind = "throw" THEN Return(FALSE)
        ELSE Return(r.value /\ alarms["blockingStart"].present)

\* try { ... } catch (error) { return false; }
shouldBlockCurrentSite(url, st, readOk, currentDay, currentTime) ==
    LET r == shouldBlockTry(url, st, readOk, currentDay, currentTime)
    IN  IF r.kind = "throw" THEN Return(FALSE) ELSE r

-----------------------------------------------------------------------------
(* What the options page takes for a broken configuration.                 *)

IsDigit(c) == IndexIn(Digits, c) # 0

\* isValidTimeString: /^([01]?[0-9]|2[0-3]):[0-5][0-9]$/
isValidTimeString(timeString) ==
    LET k == IndexOf(timeString, ":")
        hh == SubSeq(timeString, 1, k - 1)
        mm == SubSeq(timeString, k + 1, Len(timeString))
    IN  /\ k # 0
        /\ \/ Len(hh) = 1 /\ IsDigit(hh)
           \/ Len(hh) = 2 /\ CharAt(hh, 1) \in {"0", "1"} /\ IsDigit(CharAt(hh, 2))
           \/ Len(hh) = 2 /\ CharAt(hh, 1) = "2"
                          /\ CharAt(hh, 2) \in {"0", "1", "2", "3"}
        /\ Len(mm) = 2
        /\ CharAt(mm, 1) \in {"0", "1", "2", "3", "4", "5"}
        /\ IsDigit(CharAt(mm, 2))

\* timeRegex.test(value) for a value that need not be a string: test
\* converts its argument to a string, and an array of one element has the
\* string of that element.  No number, boolean or plain object has a string
\* with a colon between digits.
RECURSIVE testTimeRegex(_)
testTimeRegex(value) ==
    IF value.t = "string" THEN isValidTimeString(value.v)
    ELSE IF value.t = "array" /\ Len(value.v) = 1 THEN testTimeRegex(value.v[1])
    ELSE FALSE

\* The conditions under which validateAndFixConfig replaces blockedSites or
\* a part of the schedule by its default.
needsRepair(config) ==
    \/ ~Truthy(config.v.blockedSites) \/ config.v.blockedSites.t # "array"
    \/ ~Truthy(config.v.schedule) \/ config.v.schedule.t # "object"
    \/ LET schedule == config.v.schedule.v
       IN  \/ schedule.enabled.t # "boolean"
           \/ ~Truthy(schedule.startTime) \/ ~testTimeRegex(schedule.startTime)
           \/ ~Truthy(schedule.endTime) \/ ~testTimeRegex(schedule.endTime)
           \/ ~Truthy(schedule.workDays) \/ schedule.workDays.t # "array"

-----------------------------------------------------------------------------
(* Configurations.                                                         *)

Schedule(enabled, startTime, endTime, workDays) ==
    Obj([enabled |-> enabled, startTime |-> startTime, endTime |-> endTime,
         workDays |-> workDays])

Config(blockedSites, schedule, despairMessages, enableTTS) ==
    Obj([blockedSites |-> blockedSites, schedule |-> schedule,
         despairMessages |-> despairMessages, enableTTS |-> enableTTS])

\* Days are Date.getDay() numbers: 0 is Sunday, 1 Monday, 6 Saturday.
WorkWeek == Arr(<<Num(1), Num(2), Num(3), Num(4), Num(5)>>)
Weekend == Arr(<<Num(0), Num(6)>>)

\* The four default messages, by their opening words.
DefaultMessages ==
    Arr(<<Str("Hello from 3 hours from now."), Str("It's me from the future."),
          Str("Future you here."), Str("Your future self is crying.")>>)

DEFAULT_CONFIG ==
    Config(Arr(<<Str("youtube.com"), Str("facebook.com"), Str("twitter.com"),
                 Str("instagram.com"), Str("reddit.com"), Str("tiktok.com")>>),
           Schedule(Bool(TRUE), Str("09:00"), Str("17:00"), WorkWeek),
           DefaultMessages, Bool(TRUE))

\* Block lists a user can have entered, and lists that are no arrays of strings.
BlockLists ==
    { Arr(<<Str("youtube.com")>>), Arr(<<Str("tube.com")>>),
      Arr(<<Str("facebook.com"), Str("YouTube.com")>>),
      Arr(<<Str("m.youtube.com.au")>>), Arr(<<>>) }

\* A schedule that is switched off, and one that covers every minute.
ScheduleOff == Schedule(Bool(FALSE), Str("09:00"), Str("17:00"), WorkWeek)
ScheduleAlways ==
    Schedule(Bool(TRUE), Str("00:00"), Str("23:59"),
             Arr(<<Num(0), Num(1), Num(2), Num(3), Num(4), Num(5), Num(6)>>))

MalformedBlockLists ==
    { Undef, Arr(<<Num(5), Str("youtube.com")>>), Arr(<<Str("youtube.com"), Num(5)>>) }

Windows ==
    { <<"09:00", "17:00">>, <<"9:00", "17:00">>, <<"17:00", "09:00">>,
      <<"00:00", "23:59">> }

Schedules ==
    { Schedule(Bool(e), Str(w[1]), Str(w[2]), d) :
        e \in BOOLEAN, w \in Windows, d \in {WorkWeek, Weekend} }

\* Schedules that validateAndFixConfig would repair: a missing enabled (the
\* "enable" key of the older DEFAULT_CONFIG), times that are no HH:MM strings,
\* a missing workDays, no schedule at all.
MalformedSchedules ==
    { Undef,
      Schedule(Undef, Str("08:30"), Str("16:40"), WorkWeek),
      Schedule(Bool(TRUE), Undef, Str("17:00"), WorkWeek),
      Schedule(Bool(TRUE), Str("9"), Str("17:00"), WorkWeek),
      Schedule(Bool(TRUE), Str("09:00"), Str("late"), WorkWeek),
      Schedule(Bool(TRUE), Str("09:00"), Str("17:00"), Undef) }

\* Every schedule with a list that matches youtube.com, and every list with
\* a schedule that lets the site match decide.
WellFormedConfigs ==
    { Config(b, s, DefaultMessages, Bool(TRUE)) :
        b \in {Arr(<<Str("youtube.com")>>)}, s \in Schedules }
    \cup { Config(b, s, DefaultMessages, Bool(TRUE)) :
        b \in BlockLists, s \in {ScheduleOff, ScheduleAlways} }
    \cup {DEFAULT_CONFIG}

MalformedConfigs ==
    { Config(b, s, DefaultMessages, Bool(TRUE)) :
        b \in MalformedBlockLists, s \in {DEFAULT_CONFIG.v.schedule} }
    \cup { Config(b, s, DefaultMessages, Bool(TRUE)) :
        b \in {Arr(<<Str("youtube.com")>>)}, s \in MalformedSchedules }

\* What chrome.storage.sync can hold under the key config: nothing, a
\* configuration, or an object that is none.
StoredConfigs == {Undef} \cup WellFormedConfigs \cup MalformedConfigs

\* temporaryDisabled is absent until the popup first writes it.
StoredFlags == {Undef, Bool(TRUE), Bool(FALSE)}

\* URLs a decision is asked for.
Urls ==
    { "https://m.youtube.com/watch?v=1", "https://youtube.com/",
      "https://YouTube.com/feed", "https://example.com/", "not a url",
      "about:blank" }

Days == 0..6

\* Minutes of the day a decision is taken at: midnight, the minutes around
\* 09:00 and 17:00, noon and the last minute of the day.
Minute(h, m) == h * 60 + m
TimesOfDay ==
    { Minute(0, 0), Minute(8, 59), Minute(9, 0), Minute(12, 0), Minute(17, 0),
      Minute(17, 1), Minute(23, 59) }

-----------------------------------------------------------------------------
(* The decision service as a state machine: a caller asks, gets the        *)
(* outcome, and goes on.  The popup is what writes temporaryDisabled.      *)

NoDecision ==
    [called |-> FALSE, url |-> "", day |-> 0, time |-> 0, readOk |-> TRUE,
     config |-> Undef, temporaryDisabled |-> Undef, raised |-> FALSE,
     result |-> FALSE]

\* A call of shouldBlockCurrentSite(url) at wall-clock (day, time): dec keeps
\* the arguments, what line 208 read, and the completion.
Decide(url, day, time, readOk) ==
    /\ ~dec.called
    /\ LET r == shouldBlockCurrentSite(url, storage, readOk, day, time)
       IN  dec' = [called |-> TRUE, url |-> url, day |-> day, time |-> time,
                   readOk |-> readOk, config |-> storage.config,
                   temporaryDisabled |-> storage.temporaryDisabled,
                   raised |-> (r.kind = "throw"),
                   result |-> (r.kind = "return" /\ r.value)]
    /\ UNCHANGED <<storage, popup, settingsVars>>
    /\ UNCHANGED pageVars

\* The caller has used the outcome.
DecisionUsed ==
    /\ dec.called
    /\ dec' = NoDecision
    /\ UNCHANGED <<storage, popup, settingsVars>>
    /\ UNCHANGED pageVars

\* popup.js: let currentConfig = null; let isBlocking = true;
NoPopup == [open |-> FALSE, isBlocking |-> TRUE, currentConfig |-> Undef]

\* What happens in the page is left alone by the popup; lastOp names its step.
popupStep(op) ==
    /\ lastOp' = op
    /\ UNCHANGED <<tab, overlays, createdAt, handlers, overflow, pending, outbox,
                   now, nextProbe, runtimeOk, settingsVars>>

\* popup.js loadStatus: reads the keys config and temperaryDisabled.
loadStatus ==
    /\ ~popup.open
    /\ popup' = [open |-> TRUE, isBlocking |-> ~Truthy(storage.temperaryDisabled),
                 currentConfig |-> storage.config]
    /\ UNCHANGED <<storage, dec>>
    /\ popupStep("popup:loaded")

\* popup.js toggleBlocking: flips isBlocking, then stores its negation; a
\* rejected set leaves the store as it was.
toggleBlocking(setOk) ==
    /\ popup.open
    /\ popup' = [popup EXCEPT !.isBlocking = ~popup.isBlocking]
    /\ storage' = IF setOk
                  THEN [storage EXCEPT !.temporaryDisabled = Bool(popup.isBlocking)]
                  ELSE storage
    /\ UNCHANGED dec
    /\ popupStep(IF setOk THEN "popup:toggled" ELSE "popup:toggle:failed")

popupClose ==
    /\ popup.open
    /\ popup' = NoPopup
    /\ UNCHANGED <<storage, dec>>
    /\ popupStep("popup:closed")

-----------------------------------------------------------------------------
(* Bounds of the page model and the timer periods of the content script.   *)

MaxHistory == 2     \* session-history entries of the tab
MaxElements == 2    \* overlay elements alive (attached, or held by a listener)
MaxPending == 1     \* injection timeouts of the background in flight
MaxOutbox == 1      \* handleUrlChange timeouts in flight
MaxSweeps == 13     \* firings of the cleanup interval on a page

SweepMs == 30000
ProbeMs == 60000
ExpiryMs == 5 * 60 * 1000
MaxNow == MaxSweeps * SweepMs

Elements == 1..MaxElements

\* Pages the tab visits: two URLs of a blocked site (same origin) and one of
\* a site that is not blocked; the primary action may leave for about:blank.
PageUrls ==
    { "https://youtube.com/", "https://youtube.com/watch?v=1",
      "https://example.com/" }
BlankUrl == "about:blank"

\* The stored configuration of the page model: the scenario of the
\* specification (youtube.com, 09:00-17:00 on work days).
ScenarioConfig ==
    Config(Arr(<<Str("youtube.com")>>),
           Schedule(Bool(TRUE), Str("09:00"), Str("17:00"), WorkWeek),
           DefaultMessages, Bool(TRUE))

\* Wall-clock moments of a decision: Tuesday 10:00 and Tuesday 18:00.
WallClocks == { <<2, Minute(10, 0)>>, <<2, Minute(18, 0)>> }

AllUrls == PageUrls \cup {BlankUrl}

\* What chrome.storage.sync holds while a page is modelled.
PageStorages ==
    { [config |-> ScenarioConfig, temporaryDisabled |-> f,
       temperaryDisabled |-> Undef] : f \in StoredFlags }

\* The instants the cleanup interval can fire at.
TimeValues == { k * SweepMs : k \in 0..MaxSweeps }

-----------------------------------------------------------------------------
(* Number <-> string, as dataset.createdAt stores Date.now().              *)

RECURSIVE toString(_)
toString(n) ==
    IF n < 10 THEN CharAt(Digits, n + 1)
    ELSE toString(n \div 10) \o CharAt(Digits, (n % 10) + 1)

\* The longest prefix of s made of decimal digits.
RECURSIVE DigitPrefix(_)
DigitPrefix(s) ==
    IF s = "" \/ IndexIn(Digits, CharAt(s, 1)) = 0 THEN ""
    ELSE CharAt(s, 1) \o DigitPrefix(SubSeq(s, 2, Len(s)))

\* parseInt(string): the value of the leading digits, NaN if there are none.
parseInt(s) ==
    IF DigitPrefix(s) = "" THEN NaN ELSE Num(DigitsValue(DigitPrefix(s), 0))

Minus(a, b) == IF a.nan \/ b.nan THEN NaN ELSE Num(a.v - b.v)
GreaterThan(a, b) == ~a.nan /\ ~b.nan /\ a.v > b.v

-----------------------------------------------------------------------------
(* The document: its overlay elements, their data, the listeners blockPage *)
(* registered and the overflow style of the root element.                  *)

Range(q) == { q[i] : i \in 1..Len(q) }

Dom ==
    [overlays |-> overlays, createdAt |-> createdAt, handlers |-> handlers,
     overflow |-> overflow]

\* A document that has just been created.
EmptyDom ==
    [overlays |-> <<>>, createdAt |-> [e \in Elements |-> Undef],
     handlers |-> {}, overflow |-> ""]

SetDom(d) ==
    /\ overlays' = d.overlays
    /\ createdAt' = d.createdAt
    /\ handlers' = d.handlers
    /\ overflow' = d.overflow

\* document.getElementById('despair-blocker-overlay'): the first such element
\* in document order, 0 for null.
getElementById(d) == IF d.overlays = <<>> THEN 0 ELSE Head(d.overlays)

\* element.remove(): detaches the element if it is attached.  createdAt
\* holds the data of attached elements only: nothing reads the dataset of a
\* detached one.
removeElement(d, el) ==
    [d EXCEPT !.overlays = SelectSeq(d.overlays, LAMBDA x : x # el),
              !.createdAt[el] = Undef]

\* Variant of blockPage: without the guard of lines 296-298.
blockPageUnguarded(d, el) ==
    [overlays |-> Append(d.overlays, el),
     createdAt |-> [d.createdAt EXCEPT ![el] = Undef],
     handlers |-> d.handlers \cup {el},
     overflow |-> "hidden"]

\* blockPage(message, enableTTS) with el the element createElement returns:
\* nothing if an overlay exists; else the host is appended to documentElement,
\* overflow is hidden and the keydown listener registered.  dataset.createdAt
\* is not written.
blockPage(d, el) ==
    IF getElementById(d) # 0 THEN d
    ELSE [overlays |-> Append(d.overlays, el),
          createdAt |-> [d.createdAt EXCEPT ![el] = Undef],
          handlers |-> d.handlers \cup {el},
          overflow |-> "hidden"]

\* Variant of secondaryClick: the report is sent first and not guarded, so a
\* send that throws ends the listener before the overlay is removed.
secondaryClickSendFirst(d, el, sendOutcome) ==
    IF sendOutcome = "throws" THEN d
    ELSE [removeElement(d, el) EXCEPT !.overflow = ""]

\* The click listener of the secondary button of overlay el: remove, restore
\* scrolling, then report; a failing send is caught.
secondaryClick(d, el, sendOutcome) ==
    [removeElement(d, el) EXCEPT !.overflow = ""]

\* The catch branch of the primary button's listener.
primaryFallback(d, el) ==
    [removeElement(d, el) EXCEPT !.overflow = ""]

\* handleKeydown of overlay el on Escape.
handleKeydown(d, el) ==
    [removeElement(d, el) EXCEPT !.overflow = "", !.handlers = d.handlers \ {el}]

\* Variant of dispatchEscape: the keydown reaches the handler registered
\* first and no other.
dispatchEscapeFirstOnly(d, hs) ==
    IF hs = {} THEN d
    ELSE handleKeydown(d, CHOOSE x \in hs : \A y \in hs : x <= y)

\* A keydown of Escape reaches every registered handleKeydown.
RECURSIVE dispatchEscape(_, _)
dispatchEscape(d, hs) ==
    IF hs = {} THEN d
    ELSE LET el == CHOOSE x \in hs : \A y \in hs : x <= y
         IN  dispatchEscape(handleKeydown(d, el), hs \ {el})

\* Variant of emergencyCleanup: the overlay is removed and the overflow of
\* the root element left as it is.
emergencyCleanupKeepsOverflow(d) ==
    LET overlay == getElementById(d)
    IN  IF overlay # 0 THEN removeElement(d, overlay) ELSE d

\* content.js emergencyCleanup.
emergencyCleanup(d) ==
    LET overlay == getElementById(d)
    IN  IF overlay # 0
        THEN [removeElement(d, overlay) EXCEPT !.overflow = ""]
        ELSE d

\* Date.now() - parseInt(overlayTime) > 5 * 60 * 1000
isExpired(t, overlayTime) ==
    GreaterThan(Minus(Num(t), parseInt(overlayTime)), Num(ExpiryMs))

\* Date.now().toString() and the expiry test, tabulated over the instants of
\* the model.
NowString == [t \in TimeValues |-> toString(t)]
Expired ==
    [k \in { <<t, NowString[c]>> : t \in TimeValues, c \in TimeValues } |->
        isExpired(k[1], k[2])]

\* Variant of cleanupSweep: without the else-branch that stamps an overlay
\* whose dataset.createdAt is missing.
cleanupSweepNoStamp(d, t) ==
    LET overlay == getElementById(d)
    IN  IF overlay = 0 THEN d
        ELSE LET overlayTime == d.createdAt[overlay]
             IN  IF Truthy(overlayTime) /\ Expired[<<t, overlayTime.v>>]
                 THEN emergencyCleanup(d)
                 ELSE d

\* The body of the 30 s interval of content.js, run at Date.now() = t.
cleanupSweep(d, t) ==
    LET overlay == getElementById(d)
    IN  IF overlay = 0 THEN d
        ELSE LET overlayTime == d.createdAt[overlay]
             IN  IF Truthy(overlayTime) /\ Expired[<<t, overlayTime.v>>]
                 THEN emergencyCleanup(d)
                 ELSE IF ~Truthy(overlayTime)
                 THEN [d EXCEPT !.createdAt[overlay] = Str(NowString[t])]
                 ELSE d

-----------------------------------------------------------------------------
(* The tab and its session history.  An entry made by pushState shares the *)
(* document of the entry before it (same = TRUE); moving between two such  *)
(* entries is a same-document navigation, without unload.                  *)

Entry(url, same) == [url |-> url, same |-> same]

location == tab.hist[tab.idx].url

\* tab.url.startsWith('http://') || tab.url.startsWith('https://')
isHttpUrl(url) == startsWith(url, "http://") \/ startsWith(url, "https://")

HttpUrl == [u \in { v : v \in AllUrls } |-> isHttpUrl(u)]

\* The content script runs in the http(s) documents.
contentScriptRuns == HttpUrl[location]

\* pushState and replaceState accept a URL of the document's origin only.
sameOrigin(u, v) ==
    /\ urlHostname(u).kind = "return"
    /\ urlHostname(v).kind = "return"
    /\ urlHostname(u).value = urlHostname(v).value

SameOrigin ==
    [k \in { <<u, v>> : u \in AllUrls, v \in AllUrls } |-> sameOrigin(k[1], k[2])]

PendingCount ==
    LET RECURSIVE Sum(_)
        Sum(S) == IF S = {} THEN 0
                  ELSE LET u == CHOOSE x \in S : TRUE
                       IN  pending[u] + Sum(S \ {u})
    IN  Sum(PageUrls)

\* await shouldBlockCurrentSite(url), tabulated over the stores, URLs and
\* wall-clock moments of the page model.
ShouldBlock ==
    [k \in { <<st, url, wc>> : st \in PageStorages, url \in PageUrls,
                                wc \in WallClocks } |->
        shouldBlockCurrentSite(k[2], k[1], TRUE, k[3][1], k[3][2]).value]

\* The decision a listener of the background takes for url at wall-clock wc.
decides(url, wc) == ShouldBlock[<<storage, url, wc>>]

\* Variant of scheduleInjection: the timeout is set whatever the decision.
scheduleInjectionAlways(url, wc) ==
    /\ PendingCount < MaxPending
    /\ pending' = [pending EXCEPT ![url] = @ + 1]

\* if (shouldBlock) setTimeout(() => executeScript(blockPage), delay)
scheduleInjection(url, wc) ==
    IF decides(url, wc)
    THEN /\ PendingCount < MaxPending
         /\ pending' = [pending EXCEPT ![url] = @ + 1]
    ELSE pending' = pending

\* Variant of loadDocument: the navigation is carried out inside the
\* document, which is neither unloaded nor rebuilt.
loadDocumentInPlace(hist, idx) ==
    /\ tab' = [hist |-> hist, idx |-> idx]
    /\ SetDom(Dom)
    /\ outbox' = outbox
    /\ nextProbe' = nextProbe

\* The document is unloaded and another one loaded: beforeunload runs the
\* listeners of blockPage, the new document has no overlay, no listener and
\* fresh timers.
loadDocument(hist, idx) ==
    /\ tab' = [hist |-> hist, idx |-> idx]
    /\ SetDom(EmptyDom)
    /\ outbox' = 0
    /\ nextProbe' = now + ProbeMs

\* handleUrlChange: setTimeout(send urlChanged, 100).
handleUrlChange ==
    /\ outbox < MaxOutbox
    /\ outbox' = outbox + 1

\* history.back() or the back button: to the entry before the current one.
traverseBack(d) ==
    IF tab.hist[tab.idx].same
    THEN /\ tab' = [tab EXCEPT !.idx = tab.idx - 1]
         /\ SetDom(d)
         /\ handleUrlChange      \* popstate
         /\ UNCHANGED nextProbe
    ELSE loadDocument(tab.hist, tab.idx - 1)

-----------------------------------------------------------------------------
(* Background listeners.  lastOp names what the step did.                  *)

\* chrome.tabs.onUpdated: changeInfo.status is loading, complete, or absent.
tabsOnUpdated(status, wc) ==
    /\ IF status \notin {"loading", "complete"} \/ ~HttpUrl[location]
       THEN pending' = pending
       ELSE scheduleInjection(location, wc)
    /\ lastOp' = "request"
    /\ UNCHANGED <<decisionVars, tab, overlays, createdAt, handlers, overflow,
                   outbox, now, nextProbe, runtimeOk>>

\* chrome.tabs.onActivated.
tabsOnActivated(wc) ==
    /\ IF ~HttpUrl[location]
       THEN pending' = pending
       ELSE scheduleInjection(location, wc)
    /\ lastOp' = "request"
    /\ UNCHANGED <<decisionVars, tab, overlays, createdAt, handlers, overflow,
                   outbox, now, nextProbe, runtimeOk>>

\* The 100 ms timeout of handleUrlChange fires: the content script sends
\* urlChanged with the URL of that moment; the background decides and may
\* schedule an injection.  An unreachable runtime makes the send fail, which
\* is swallowed.
urlChangedTimeout(wc) ==
    /\ outbox > 0
    /\ contentScriptRuns
    /\ outbox' = outbox - 1
    /\ IF runtimeOk
       THEN scheduleInjection(location, wc)
       ELSE pending' = pending
    /\ lastOp' = "request"
    /\ UNCHANGED <<decisionVars, tab, overlays, createdAt, handlers, overflow,
                   now, nextProbe, runtimeOk>>

\* visibilitychange (or focus): the content script sends tabVisible.
tabVisible(wc) ==
    /\ contentScriptRuns
    /\ IF runtimeOk
       THEN scheduleInjection(location, wc)
       ELSE pending' = pending
    /\ lastOp' = "request"
    /\ UNCHANGED <<decisionVars, tab, overlays, createdAt, handlers, overflow,
                   outbox, now, nextProbe, runtimeOk>>

FreeElements == Elements \ (Range(overlays) \cup handlers)

\* document.createElement('div'): an element that is not in use.
createElement == CHOOSE x \in FreeElements : \A y \in FreeElements : x <= y

\* An injection timeout fires: executeScript runs blockPage in the tab's
\* current document; a document that cannot be scripted rejects it, which
\* is logged.
injectionTimeout(url) ==
    /\ pending[url] > 0
    /\ pending' = [pending EXCEPT ![url] = @ - 1]
    /\ IF ~HttpUrl[location]
       THEN /\ SetDom(Dom)
            /\ lastOp' = "inject:rejected"
       ELSE /\ FreeElements # {}
            /\ SetDom(blockPage(Dom, createElement))
            /\ lastOp' = IF overlays # <<>> THEN "inject:noop" ELSE "inject"
    /\ UNCHANGED <<decisionVars, tab, outbox, now, nextProbe, runtimeOk>>

-----------------------------------------------------------------------------
(* The user and the page.                                                  *)

\* A navigation to another document (a link, the address bar).
navigate(url) ==
    /\ tab.idx < MaxHistory
    /\ loadDocument(SubSeq(tab.hist, 1, tab.idx) \o <<Entry(url, FALSE)>>,
                    tab.idx + 1)
    /\ lastOp' = IF overlays # <<>> THEN "unload:overlay" ELSE "unload"
    /\ UNCHANGED <<decisionVars, pending, now, runtimeOk>>

\* The page calls history.pushState(..., url): the URL changes inside the
\* document.  The wrapper of initUrlMonitoring is set on the history object
\* of the world the content script runs in (the script uses chrome.runtime,
\* which the page's own world does not have), so a call of the page does not
\* pass through it; the MutationObserver runs handleUrlChange at the next
\* mutation of the body, if there is one while href differs from lastUrl.
\* noticed: one of the two has run handleUrlChange.
pushState(url, noticed) ==
    /\ contentScriptRuns
    /\ SameOrigin[<<url, location>>]
    /\ tab.idx < MaxHistory
    /\ tab' = [hist |-> SubSeq(tab.hist, 1, tab.idx) \o <<Entry(url, TRUE)>>,
               idx |-> tab.idx + 1]
    /\ IF noticed THEN handleUrlChange ELSE outbox' = outbox
    /\ lastOp' = IF overlays # <<>> THEN "samedoc:overlay" ELSE "samedoc"
    /\ UNCHANGED <<decisionVars, overlays, createdAt, handlers, overflow,
                   pending, now, nextProbe, runtimeOk>>

\* The page calls history.replaceState(..., url), noticed in the same way.
replaceState(url, noticed) ==
    /\ contentScriptRuns
    /\ SameOrigin[<<url, location>>]
    /\ url # location
    /\ tab' = [tab EXCEPT !.hist[tab.idx].url = url]
    /\ IF noticed THEN handleUrlChange ELSE outbox' = outbox
    /\ lastOp' = IF overlays # <<>> THEN "samedoc:overlay" ELSE "samedoc"
    /\ UNCHANGED <<decisionVars, overlays, createdAt, handlers, overflow,
                   pending, now, nextProbe, runtimeOk>>

\* The back button of the browser.
browserBack ==
    /\ tab.idx > 1
    /\ traverseBack(Dom)
    /\ lastOp' = IF tab.hist[tab.idx].same
                 THEN (IF overlays # <<>> THEN "samedoc:overlay" ELSE "samedoc")
                 ELSE (IF overlays # <<>> THEN "unload:overlay" ELSE "unload")
    /\ UNCHANGED <<decisionVars, pending, now, runtimeOk>>

\* A click on the primary button of overlay el.  navThrows: the navigation
\* call throws.  history.back() with no entry to go back to does nothing.
primaryClick(el, navThrows) ==
    /\ el \in Range(overlays)
    /\ IF navThrows
       THEN /\ SetDom(primaryFallback(Dom, el))
            /\ lastOp' = "primary:fallback"
            /\ UNCHANGED <<tab, outbox, nextProbe>>
       ELSE IF Len(tab.hist) > 1
       THEN IF tab.idx = 1
            THEN /\ lastOp' = "primary:nowhere"
                 /\ UNCHANGED <<tab, overlays, createdAt, handlers, overflow,
                                outbox, nextProbe>>
            ELSE /\ traverseBack(Dom)
                 /\ lastOp' = IF tab.hist[tab.idx].same
                              THEN "primary:samedoc" ELSE "primary:unload"
       ELSE /\ loadDocument(tab.hist \o <<Entry(BlankUrl, FALSE)>>, tab.idx + 1)
            /\ lastOp' = "primary:unload"
    /\ UNCHANGED <<decisionVars, pending, now, runtimeOk>>

\* A click on the secondary button of overlay el; sendOutcome is what
\* chrome.runtime.sendMessage does: it throws or rejects without a runtime.
secondaryClickEvent(el, sendOutcome) ==
    /\ el \in Range(overlays)
    /\ sendOutcome \in (IF runtimeOk THEN {"ok"} ELSE {"throws", "rejects"})
    /\ SetDom(secondaryClick(Dom, el, sendOutcome))
    /\ lastOp' = IF sendOutcome = "ok" THEN "ignore" ELSE "ignore:failed"
    /\ UNCHANGED <<decisionVars, tab, pending, outbox, now, nextProbe, runtimeOk>>

\* The Escape key.
escapeKey ==
    /\ handlers # {}
    /\ SetDom(dispatchEscape(Dom, handlers))
    /\ lastOp' = "escape"
    /\ UNCHANGED <<decisionVars, tab, pending, outbox, now, nextProbe, runtimeOk>>

\* Ctrl+Shift+D.
emergencyHotkey ==
    /\ contentScriptRuns
    /\ SetDom(emergencyCleanup(Dom))
    /\ lastOp' = "emergency"
    /\ UNCHANGED <<decisionVars, tab, pending, outbox, now, nextProbe, runtimeOk>>

-----------------------------------------------------------------------------
(* Timers of the content script.                                           *)

\* The 30 s interval fires: 30 s have passed since it fired last.
cleanupInterval ==
    /\ contentScriptRuns
    /\ now < nextProbe
    /\ now + SweepMs <= MaxNow
    /\ now' = now + SweepMs
    /\ SetDom(cleanupSweep(Dom, now'))
    /\ lastOp' = IF Len(cleanupSweep(Dom, now').overlays) < Len(overlays)
                 THEN "sweep:expired" ELSE "sweep"
    /\ UNCHANGED <<decisionVars, tab, pending, outbox, nextProbe, runtimeOk>>

\* Variant of checkExtensionContext: the ping no listener answers counts as
\* a failure too.
checkExtensionContextUnanswered ==
    /\ contentScriptRuns
    /\ now >= nextProbe
    /\ nextProbe' = nextProbe + ProbeMs
    /\ SetDom(emergencyCleanup(Dom))
    /\ lastOp' = "probe:cleanup"
    /\ UNCHANGED <<decisionVars, tab, pending, outbox, now, runtimeOk>>

\* checkExtensionContext, every 60 s: a ping that fails runs emergencyCleanup.
\* The listener of the background has no branch for ping and sends no
\* response to it; the promise of a message that is delivered and not
\* answered resolves, so the catch runs only when the runtime is gone
\* (sendMessage throws or rejects).
checkExtensionContext ==
    /\ contentScriptRuns
    /\ now >= nextProbe
    /\ nextProbe' = nextProbe + ProbeMs
    /\ IF runtimeOk
       THEN /\ SetDom(Dom)
            /\ lastOp' = "probe"
       ELSE /\ SetDom(emergencyCleanup(Dom))
            /\ lastOp' = "probe:cleanup"
    /\ UNCHANGED <<decisionVars, tab, pending, outbox, now, runtimeOk>>

\* The extension is reloaded, updated or removed: the runtime of the content
\* script already in the page is gone.
runtimeLost ==
    /\ runtimeOk
    /\ runtimeOk' = FALSE
    /\ lastOp' = "runtimeLost"
    /\ UNCHANGED <<decisionVars, tab, overlays, createdAt, handlers, overflow,
                   pending, outbox, now, nextProbe>>

-----------------------------------------------------------------------------
(* Dates.  An instant is a number of milliseconds since the model's epoch, *)
(* the local midnight a Saturday starts with.  The zone of the host moves  *)
(* its clocks at most once: from the instant zone.at on, local time is     *)
(* ahead of the time before by zone.shift.                                 *)

MinuteMs == 60 * 1000
HourMs == 60 * MinuteMs
DayMs == 24 * HourMs

\* A zone without clock changes, one that goes from 02:00 to 03:00 on the
\* Sunday, and one that goes from 02:00 back to 01:00 on the Sunday.
NoChange == [at |-> 0, shift |-> 0]
SpringForward == [at |-> DayMs + 2 * HourMs, shift |-> HourMs]
FallBack == [at |-> DayMs + 2 * HourMs, shift |-> 0 - HourMs]
Zones == {NoChange, SpringForward, FallBack}

\* LocalTime(t) of ECMAScript: the local time of an instant.
LocalTime(z, t) == IF t < z.at THEN t ELSE t + z.shift

\* UTC(t) of ECMAScript: the instant of a local time.  A local time the
\* clocks skip is read with the offset before the change, a local time that
\* comes twice is the earlier of its two instants.
UTC(z, local) ==
    IF local < z.at + (IF z.shift > 0 THEN z.shift ELSE 0)
    THEN local ELSE local - z.shift

\* date.setHours(hours, minutes, 0, 0): the same local day, at hours:minutes.
setHours(z, date, hours, minutes) ==
    UTC(z, (LocalTime(z, date) \div DayMs) * DayMs
               + hours * HourMs + minutes * MinuteMs)

\* date.setDate(date.getDate() + 1): the next local day, the same local time.
setDateNextDay(z, date) == UTC(z, LocalTime(z, date) + DayMs)

\* const [hours, minutes] = timeString.split(':').map(Number);
parseTime(timeString) ==
    LET parts == split(timeString, ":")
    IN  [hours |-> Number(parts[1]),
         minutes |-> IF Len(parts) >= 2 THEN Number(parts[2]) ELSE NaN]

\* Variant of getNextAlarmTime: a trigger time equal to now is kept for today.
getNextAlarmTimeKeepsNow(z, time, nowDate, alarmDate) ==
    IF time.hours.nan \/ time.minutes.nan THEN NaN
    ELSE LET alarmTime == setHours(z, alarmDate, time.hours.v, time.minutes.v)
         IN  Num(IF alarmTime < nowDate
                 THEN setDateNextDay(z, alarmTime) ELSE alarmTime)

\* getNextAlarmTime(time): nowDate and alarmDate are what the two new Date()
\* of lines 113 and 114 read.  With a NaN field the date is invalid, the
\* comparison false, and getTime() NaN.
getNextAlarmTime(z, time, nowDate, alarmDate) ==
    IF time.hours.nan \/ time.minutes.nan THEN NaN
    ELSE LET alarmTime == setHours(z, alarmDate, time.hours.v, time.minutes.v)
         IN  Num(IF alarmTime <= nowDate
                 THEN setDateNextDay(z, alarmTime) ELSE alarmTime)

-----------------------------------------------------------------------------
(* chrome.alarms and the schedule set-up of the background.                *)

AlarmNames == {"blockingStart", "blockingEnd"}
NoAlarm == [present |-> FALSE]
NoAlarms == [n \in AlarmNames |-> NoAlarm]

PeriodInMinutes == 24 * 60

\* chrome.alarms.create(name, {when, periodInMinutes}) replaces the alarm of
\* that name.  from is history: the schedule the alarm was created for.
Alarm(when, schedule) ==
    [present |-> TRUE, when |-> when, periodInMinutes |-> PeriodInMinutes,
     from |-> schedule]

\* setupBlockingSchedule: the alarms it leaves, given the stored config and
\* the alarms there were.  Line 73 returns before clearAll of line 76; a
\* schedule that is no object, or a time that is no string, throws into the
\* catch of line 96, the first before and the second after clearAll.
setupBlockingSchedule(config, old, z, nowDate, alarmDate) ==
    IF ~Truthy(config) THEN old
    ELSE IF config.v.schedule.t # "object" THEN old
    ELSE IF ~Truthy(config.v.schedule.v.enabled) THEN old
    ELSE LET schedule == config.v.schedule.v
         IN  IF schedule.startTime.t # "string" \/ schedule.endTime.t # "string"
             THEN NoAlarms
             ELSE [n \in AlarmNames |->
                     IF n = "blockingStart"
                     THEN Alarm(getNextAlarmTime(z, parseTime(schedule.startTime.v),
                                                 nowDate, alarmDate),
                                config.v.schedule)
                     ELSE Alarm(getNextAlarmTime(z, parseTime(schedule.endTime.v),
                                                 alarmDate, alarmDate),
                                config.v.schedule)]

-----------------------------------------------------------------------------
(* The options page: currentConfig, edited in memory, and what it stores.  *)

\* getDefaultConfig() returns the values of DEFAULT_CONFIG.
getDefaultConfig == DEFAULT_CONFIG

\* The schedule part of validateAndFixConfig (lines 1214-1229).
validateAndFixSchedule(schedule) ==
    IF ~Truthy(schedule) \/ schedule.t # "object"
    THEN getDefaultConfig.v.schedule
    ELSE LET s == schedule.v
             d == getDefaultConfig.v.schedule.v
         IN  Obj([enabled |-> IF s.enabled.t # "boolean" THEN d.enabled
                              ELSE s.enabled,
                  startTime |-> IF ~Truthy(s.startTime) \/ ~testTimeRegex(s.startTime)
                                THEN d.startTime ELSE s.startTime,
                  endTime |-> IF ~Truthy(s.endTime) \/ ~testTimeRegex(s.endTime)
                              THEN d.endTime ELSE s.endTime,
                  workDays |-> IF ~Truthy(s.workDays) \/ s.workDays.t # "array"
                               THEN d.workDays ELSE s.workDays])

\* The despairMessages part of validateAndFixConfig (lines 1231-1233).
validateAndFixMessages(despairMessages) ==
    IF ~Truthy(despairMessages) \/ despairMessages.t # "array"
       \/ Len(despairMessages.v) = 0
    THEN getDefaultConfig.v.despairMessages
    ELSE despairMessages

\* validateAndFixConfig(config), for a config that is an object.
validateAndFixConfig(config) ==
    Config(IF ~Truthy(config.v.blockedSites) \/ config.v.blockedSites.t # "array"
           THEN getDefaultConfig.v.blockedSites ELSE config.v.blockedSites,
           validateAndFixSchedule(config.v.schedule),
           validateAndFixMessages(config.v.despairMessages),
           IF config.v.enableTTS.t # "boolean" THEN getDefaultConfig.v.enableTTS
           ELSE config.v.enableTTS)

\* a < b on strings as JavaScript compares them, for strings of digits and
\* colons: code unit by code unit, a proper prefix first.
TimeChars == "0123456789:"
RECURSIVE StringLess(_, _)
StringLess(a, b) ==
    IF b = "" THEN FALSE
    ELSE IF a = "" THEN TRUE
    ELSE LET x == IndexIn(TimeChars, CharAt(a, 1))
             y == IndexIn(TimeChars, CharAt(b, 1))
         IN  IF x # y THEN x < y
             ELSE StringLess(SubSeq(a, 2, Len(a)), SubSeq(b, 2, Len(b)))

\* timeStringToMinutes of the options page, on a valid time string.
timeStringToMinutes(timeString) == parseTimeToMinutes(timeString).v

\* String.prototype.trim, for strings padded with spaces.
RECURSIVE trim(_)
trim(s) ==
    IF s = "" THEN s
    ELSE IF CharAt(s, 1) = " " THEN trim(SubSeq(s, 2, Len(s)))
    ELSE IF CharAt(s, Len(s)) = " " THEN trim(SubSeq(s, 1, Len(s) - 1))
    ELSE s

\* Array.prototype.splice(index, 1) and splice(index, 0, x) on a sequence;
\* index is 0-based, as in the code.
spliceOut(q, index) == SubSeq(q, 1, index) \o SubSeq(q, index + 2, Len(q))
spliceIn(q, index, x) == SubSeq(q, 1, index) \o <<x>> \o SubSeq(q, index + 1, Len(q))

MaxRequests == 1    \* updateSchedule messages waiting for the background
MaxMessages == 5    \* despair messages in the list of the options page

MinMessageLength == 10
MaxMessageLength == 500

NoOptions ==
    [open |-> FALSE, currentConfig |-> Undef, hasUnsavedChanges |-> FALSE,
     backup |-> Undef, saving |-> "idle", event |-> FALSE]

\* What the options page leaves alone: the popup, decisions, pages, the clock.
optionsStep(op) ==
    /\ lastOp' = op
    /\ UNCHANGED <<popup, dec, tab, overlays, createdAt, handlers, overflow,
                   pending, outbox, now, nextProbe, runtimeOk, zone>>

withMessages(config, messages) == [config EXCEPT !.v.despairMessages = Arr(messages)]

\* chrome.runtime.sendMessage({action: 'updateSchedule'}) that reached the
\* background: one more request waits for its onMessage listener.
notify(delivered) ==
    worker' = [worker EXCEPT !.requests = IF delivered THEN @ + 1 ELSE @]

\* saveConfiguration() on the in-memory configuration config: validate, store,
\* notify.  A rejected set leaves the store; the validated object stays in
\* memory either way, as validateAndFixConfig repairs it in place.
saveConfiguration(config, setOk, delivered) ==
    LET validated == validateAndFixConfig(config)
    IN  /\ worker.requests < MaxRequests
        /\ IF setOk
           THEN /\ storage' = [storage EXCEPT !.config = validated]
                /\ notify(delivered)
                /\ options' = [options EXCEPT !.currentConfig = validated,
                                              !.hasUnsavedChanges = FALSE]
           ELSE /\ options' = [options EXCEPT !.currentConfig = validated]
                /\ UNCHANGED <<storage, worker>>

\* DOMContentLoaded of the options page: loadConfiguration().
optionsOpen(setOk, delivered) ==
    /\ ~options.open
    /\ IF Truthy(storage.config)
       THEN /\ options' = [options EXCEPT
                             !.open = TRUE,
                             !.currentConfig = validateAndFixConfig(storage.config),
                             !.hasUnsavedChanges = FALSE]
            /\ UNCHANGED <<storage, worker>>
       ELSE /\ worker.requests < MaxRequests
            /\ storage' = IF setOk THEN [storage EXCEPT !.config = getDefaultConfig]
                          ELSE storage
            /\ notify(setOk /\ delivered)
            /\ options' = [options EXCEPT !.open = TRUE,
                                          !.currentConfig = getDefaultConfig,
                                          !.hasUnsavedChanges = FALSE]
    /\ UNCHANGED alarms
    /\ optionsStep("options:loaded")

\* The tab of the options page is closed; localStorage keeps the backup.
optionsClose ==
    /\ options.open
    /\ options' = [options EXCEPT !.open = FALSE, !.currentConfig = Undef,
                                  !.hasUnsavedChanges = FALSE,
                                  !.saving = "idle", !.event = FALSE]
    /\ UNCHANGED <<storage, worker, alarms>>
    /\ optionsStep("options:closed")

\* An edit of currentConfig in memory: markUnsavedChanges().
edit(config, op) ==
    /\ options' = [options EXCEPT !.currentConfig = config,
                                  !.hasUnsavedChanges = TRUE]
    /\ UNCHANGED <<storage, worker, alarms>>
    /\ optionsStep(op)

\* A handler that returns without a change.
rejected(op) ==
    /\ UNCHANGED <<storage, worker, alarms, options>>
    /\ optionsStep(op)

\* toggleSchedule: the change event of the enabled checkbox.
toggleSchedule(checked) ==
    /\ options.open
    /\ edit([options.currentConfig EXCEPT !.v.schedule.v.enabled = Bool(checked)],
            "toggleSchedule")

\* updateScheduleTime: the change event of a time input; confirmed is the
\* answer to the question about a period of more than 16 hours.
updateScheduleTime(startTime, endTime, confirmed) ==
    /\ options.open
    /\ IF ~isValidTimeString(startTime) \/ ~isValidTimeString(endTime)
       THEN rejected("updateScheduleTime:rejected")
       ELSE IF ~StringLess(startTime, endTime)
       THEN rejected("updateScheduleTime:rejected")
       ELSE IF timeStringToMinutes(endTime) - timeStringToMinutes(startTime)
                  > 16 * 60 /\ ~confirmed
       THEN rejected("updateScheduleTime:rejected")
       ELSE edit([options.currentConfig EXCEPT
                    !.v.schedule.v.startTime = Str(startTime),
                    !.v.schedule.v.endTime = Str(endTime)],
                 "updateScheduleTime")

\* saveSettings: the save button, and the auto-save timeout.
saveSettings(setOk, delivered) ==
    /\ options.open
    /\ IF ~options.hasUnsavedChanges
       THEN rejected("saveSettings:nochange")
       ELSE /\ saveConfiguration(options.currentConfig, setOk, delivered)
            /\ UNCHANGED alarms
            /\ optionsStep(IF setOk THEN "saveSettings" ELSE "saveSettings:failed")

\* resetSettings, confirmed.
resetSettings(setOk, delivered) ==
    /\ options.open
    /\ saveConfiguration(getDefaultConfig, setOk, delivered)
    /\ UNCHANGED alarms
    /\ optionsStep(IF setOk THEN "resetSettings" ELSE "resetSettings:failed")

\* finishQuickSetup: the values of the wizard go into currentConfig and
\* saveSettings() stores them.
finishQuickSetup(selectedSites, startTime, endTime, selectedDays, customMessage, setOk, delivered) ==
    /\ options.open
    /\ (Len(options.currentConfig.v.despairMessages.v) < MaxMessages
           \/ trim(customMessage) = "")
    /\ LET c == options.currentConfig.v
           messages == IF trim(customMessage) # ""
                       THEN Arr(<<Str(trim(customMessage))>> \o c.despairMessages.v)
                       ELSE c.despairMessages
       IN  saveConfiguration(
               Config(selectedSites,
                      Obj([c.schedule.v EXCEPT !.startTime = Str(startTime),
                                               !.endTime = Str(endTime),
                                               !.workDays = selectedDays]),
                      messages, c.enableTTS),
               setOk, delivered)
    /\ UNCHANGED alarms
    /\ optionsStep(IF setOk THEN "finishQuickSetup" ELSE "finishQuickSetup:failed")

\* importSettings: a JSON file that parses to the object file, validated,
\* and taken once the user confirms.
importSettings(file, confirmed) ==
    /\ options.open
    /\ IF confirmed THEN edit(validateAndFixConfig(file), "importSettings")
       ELSE rejected("importSettings:cancelled")

\* validateAndFixConfig applied to the configuration in memory, as
\* loadConfiguration (line 1189) and saveConfiguration (line 1285) do first.
validateCurrentConfig ==
    /\ options.open
    /\ lastOp = "init"
    /\ options' = [options EXCEPT !.currentConfig = validateAndFixConfig(@)]
    /\ UNCHANGED <<storage, worker, alarms>>
    /\ optionsStep("validateAndFixConfig")

\* createConfigurationBackup: currentConfig goes to localStorage as JSON.
createConfigurationBackup ==
    /\ options.open
    /\ options' = [options EXCEPT !.backup = options.currentConfig]
    /\ UNCHANGED <<storage, worker, alarms>>
    /\ optionsStep("createConfigurationBackup")

\* restoreConfigurationBackup: the backup, as it is, becomes currentConfig.
restoreConfigurationBackup(confirmed) ==
    /\ options.open
    /\ IF ~Truthy(options.backup) THEN rejected("restoreConfigurationBackup:none")
       ELSE IF ~confirmed THEN rejected("restoreConfigurationBackup:cancelled")
       ELSE edit(options.backup, "restoreConfigurationBackup")

\* Texts typed for a message: one that is long enough, the same with spaces
\* around it, one of 9 characters, and blanks.
MessageTexts ==
    { "Close this tab now.", "  Close this tab now. ", "too short", "   " }

\* trim and toLowerCase, tabulated over the texts typed and the strings a list
\* of messages is made of.
Trimmed == [text \in MessageTexts |-> trim(text)]
MessageStrings ==
    { "Hello from 3 hours from now.", "It's me from the future.",
      "Future you here.", "Your future self is crying.",
      "Close this tab now.", "too short", "" }
LowerCased == [text \in MessageStrings |-> toLowerCase(text)]

\* some(msg => msg.toLowerCase() === input.toLowerCase()), but for position
\* except (0-based; -1 for none).
messageExists(messages, input, except) ==
    \E i \in 1..Len(messages) :
        i # except + 1 /\ LowerCased[messages[i].v] = LowerCased[input]

\* addMessage: the text of the input field, trimmed.
addMessage(text) ==
    /\ options.open
    /\ LET messageInput == Trimmed[text]
           messages == options.currentConfig.v.despairMessages.v
       IN  IF messageInput = "" \/ Len(messageInput) < MinMessageLength
              \/ Len(messageInput) > MaxMessageLength
              \/ messageExists(messages, messageInput, -1)
           THEN rejected("addMessage:rejected")
           ELSE /\ Len(messages) < MaxMessages
                /\ edit(withMessages(options.currentConfig,
                                     Append(messages, Str(messageInput))),
                        "addMessage")

\* editMessage(index): the answer to the prompt; cancelled is prompt's null.
editMessage(index, text, cancelled) ==
    /\ options.open
    /\ index < Len(options.currentConfig.v.despairMessages.v)
    /\ LET trimmedMessage == Trimmed[text]
           messages == options.currentConfig.v.despairMessages.v
       IN  IF cancelled \/ trimmedMessage = ""
              \/ Len(trimmedMessage) < MinMessageLength
              \/ Len(trimmedMessage) > MaxMessageLength
              \/ messageExists(messages, trimmedMessage, index)
           THEN rejected("editMessage:rejected")
           ELSE edit(withMessages(options.currentConfig,
                                  [messages EXCEPT ![index + 1] = Str(trimmedMessage)]),
                     "editMessage")

\* Variant of removeMessage: the last message can be removed as well.
removeMessageAny(index, confirmed) ==
    /\ options.open
    /\ index < Len(options.currentConfig.v.despairMessages.v)
    /\ IF ~confirmed THEN rejected("removeMessage:rejected")
       ELSE edit(withMessages(options.currentConfig,
                              spliceOut(options.currentConfig.v.despairMessages.v,
                                        index)),
                 "removeMessage")

\* removeMessage(index): the remove button of a message of the list.
removeMessage(index, confirmed) ==
    /\ options.open
    /\ index < Len(options.currentConfig.v.despairMessages.v)
    /\ IF Len(options.currentConfig.v.despairMessages.v) <= 1
       THEN rejected("removeMessage:rejected")
       ELSE IF ~confirmed THEN rejected("removeMessage:rejected")
       ELSE edit(withMessages(options.currentConfig,
                              spliceOut(options.currentConfig.v.despairMessages.v,
                                        index)),
                 "removeMessage")

\* onEnd of the sortable list: the message at oldIndex moves to newIndex.
reorderMessages(oldIndex, newIndex) ==
    /\ options.open
    /\ LET messages == options.currentConfig.v.despairMessages.v
       IN  /\ oldIndex < Len(messages)
           /\ newIndex < Len(messages)
           /\ edit(withMessages(options.currentConfig,
                                spliceIn(spliceOut(messages, oldIndex), newIndex,
                                         messages[oldIndex + 1])),
                   "reorderMessages")

-----------------------------------------------------------------------------
(* The list of blocked sites: the quick add of the popup and the options   *)
(* page's add, edit and bulk add.                                          *)

MaxSites == 8       \* entries of blockedSites

stripPrefix(s, prefix) ==
    IF startsWith(s, prefix) THEN SubSeq(s, Len(prefix) + 1, Len(s)) ELSE s

\* replace(/^https?:\/\//, ''): the pattern is case-sensitive.
removeProtocol(s) ==
    IF startsWith(s, "https://") THEN stripPrefix(s, "https://")
    ELSE stripPrefix(s, "http://")

\* replace(/\/$/, '')
removeTrailingSlash(s) ==
    IF s # "" /\ CharAt(s, Len(s)) = "/" THEN SubSeq(s, 1, Len(s) - 1) ELSE s

\* replace(/\/.*$/, '')
removePath(s) ==
    LET k == IndexOf(s, "/")
    IN  IF k = 0 THEN s ELSE SubSeq(s, 1, k - 1)

\* popup.js cleanSiteUrl: protocol, www., trailing slash, toLowerCase.
popupCleanSiteUrl(url) ==
    toLowerCase(removeTrailingSlash(stripPrefix(removeProtocol(url), "www.")))

\* cleanSiteUrl of the options page: the same, then the path, toLowerCase
\* and trim.
cleanSiteUrl(url) ==
    trim(toLowerCase(removePath(removeTrailingSlash(
        stripPrefix(removeProtocol(url), "www.")))))

\* isValidSiteUrl: domainRegex asks for a dot, so a string it accepts is
\* accepted by includes('.') as well.
isValidSiteUrl(url) ==
    LET cleanUrl == cleanSiteUrl(url)
    IN  Len(cleanUrl) > 0 /\ (includes(cleanUrl, ".") \/ Len(cleanUrl) > 3)

\* split(/[,\n]/)
RECURSIVE splitSites(_)
splitSites(s) ==
    LET c == IndexOf(s, ",")
        n == IndexOf(s, "\n")
        k == IF c = 0 THEN n ELSE IF n = 0 THEN c ELSE IF c < n THEN c ELSE n
    IN  IF k = 0 THEN <<s>>
        ELSE <<SubSeq(s, 1, k - 1)>> \o splitSites(SubSeq(s, k + 1, Len(s)))

\* What is typed into a site field: a domain, a URL with protocol, www. and
\* a path, a protocol and nothing else, www. and nothing else, blanks, and
\* two letters.
SiteInputs ==
    { "Vimeo.com", " https://www.Vimeo.com/watch ", "https://", "www.", "   ",
      "ab" }

\* What is typed into the prompt of the bulk add.
BulkTexts == { "vimeo.com, https://\nab", "www.,,", "" }

BulkPieces == { " https://", "ab", "www.", "", "vimeo.com" }

\* The strings of a list of sites: the defaults and what the inputs clean to.
SiteStrings ==
    { "youtube.com", "facebook.com", "twitter.com", "instagram.com",
      "reddit.com", "tiktok.com", "vimeo.com", "Vimeo.com", "", "ab" }

\* The string functions above, tabulated over the inputs.
SiteTrimmed == [x \in SiteInputs \cup BulkPieces |-> trim(x)]
SiteTrimmedStrings ==
    { "Vimeo.com", "https://www.Vimeo.com/watch", "https://", "www.", "", "ab",
      "vimeo.com" }
PopupCleaned == [x \in SiteTrimmedStrings |-> popupCleanSiteUrl(x)]
Cleaned == [x \in SiteTrimmedStrings \cup SiteStrings |-> cleanSiteUrl(x)]
ValidSite == [x \in SiteTrimmedStrings \cup SiteStrings |-> isValidSiteUrl(x)]
SiteLowerCased ==
    [x \in SiteStrings \cup {"vimeo.com/watch"} |-> toLowerCase(x)]
BulkSplit == [x \in BulkTexts |-> splitSites(x)]

withSites(config, sites) == [config EXCEPT !.v.blockedSites = Arr(sites)]

\* some(site => site.toLowerCase() === s.toLowerCase()), but for position
\* except (0-based; -1 for none).
siteExists(sites, s, except) ==
    \E i \in 1..Len(sites) :
        i # except + 1 /\ SiteLowerCased[sites[i].v] = SiteLowerCased[s]

\* popup.js quickAddSite: the text of the quick input.  currentConfig is the
\* object loadStatus read; it is pushed to before the store is written.
quickAddSite(input, setOk) ==
    /\ popup.open
    /\ LET siteInput == SiteTrimmed[input]
           cleanSite == PopupCleaned[siteInput]
       IN  IF siteInput = ""
           THEN UNCHANGED <<storage, popup>> /\ popupStep("quickAddSite:rejected")
           ELSE IF ~Truthy(popup.currentConfig)
           THEN UNCHANGED <<storage, popup>> /\ popupStep("quickAddSite:failed")
           ELSE LET sites == popup.currentConfig.v.blockedSites.v
                    config == withSites(popup.currentConfig,
                                        Append(sites, Str(cleanSite)))
                IN  IF \E i \in 1..Len(sites) : sites[i] = Str(cleanSite)
                    THEN /\ UNCHANGED <<storage, popup>>
                         /\ popupStep("quickAddSite:rejected")
                    ELSE /\ Len(sites) < MaxSites
                         /\ popup' = [popup EXCEPT !.currentConfig = config]
                         /\ storage' = IF setOk
                                       THEN [storage EXCEPT !.config = config]
                                       ELSE storage
                         /\ popupStep(IF setOk THEN "quickAddSite"
                                      ELSE "quickAddSite:failed")
    /\ UNCHANGED dec

\* addSite of the options page: the text of the input field.
addSite(input) ==
    /\ options.open
    /\ LET siteInput == SiteTrimmed[input]
           cleanSite == Cleaned[siteInput]
           sites == options.currentConfig.v.blockedSites.v
       IN  IF siteInput = "" \/ ~ValidSite[siteInput]
              \/ siteExists(sites, cleanSite, -1)
           THEN rejected("addSite:rejected")
           ELSE /\ Len(sites) < MaxSites
                /\ edit(withSites(options.currentConfig,
                                  Append(sites, Str(cleanSite))), "addSite")

\* editSite(index): the answer to the prompt; cancelled is prompt's null.
editSite(index, input, cancelled) ==
    /\ options.open
    /\ index < Len(options.currentConfig.v.blockedSites.v)
    /\ LET cleanNewSite == Cleaned[SiteTrimmed[input]]
           sites == options.currentConfig.v.blockedSites.v
       IN  IF cancelled \/ cleanNewSite = ""
              \/ siteExists(sites, cleanNewSite, index)
           THEN rejected("editSite:rejected")
           ELSE edit(withSites(options.currentConfig,
                               [sites EXCEPT ![index + 1] = Str(cleanNewSite)]),
                     "editSite")

\* The pieces of a bulk text that are kept: cleaned, not empty and valid.
RECURSIVE bulkSites(_)
bulkSites(pieces) ==
    IF pieces = <<>> THEN <<>>
    ELSE LET site == Cleaned[SiteTrimmed[Head(pieces)]]
         IN  (IF site # "" /\ ValidSite[site] THEN <<site>> ELSE <<>>)
                 \o bulkSites(Tail(pieces))

\* sites.forEach: a site is pushed unless the list has it already.
RECURSIVE pushNewSites(_, _)
pushNewSites(sites, new) ==
    IF new = <<>> THEN sites
    ELSE pushNewSites(IF siteExists(sites, Head(new), -1) THEN sites
                      ELSE Append(sites, Str(Head(new))),
                      Tail(new))

\* addMultipleSites: the answer to the prompt.
addMultipleSites(sitesText) ==
    /\ options.open
    /\ LET sites == options.currentConfig.v.blockedSites.v
           new == IF sitesText = "" THEN <<>> ELSE bulkSites(BulkSplit[sitesText])
           result == pushNewSites(sites, new)
       IN  IF result = sites
           THEN rejected("addMultipleSites:rejected")
           ELSE /\ Len(result) <= MaxSites
                /\ edit(withSites(options.currentConfig, result),
                        "addMultipleSites")

-----------------------------------------------------------------------------
(* The background: initializeExtension, the updateSchedule message, alarms. *)

\* The instants the background is looked at: the start of the Saturday, the
\* millisecond before its 09:00, its 09:00, its noon, its last millisecond,
\* the start of the Sunday, the Sunday's 01:45 as it first comes, a quarter
\* past the hour the clocks change at, and the Sunday's noon.
Instants ==
    { 0, 9 * HourMs - 1, 9 * HourMs, 12 * HourMs, DayMs - 1, DayMs,
      DayMs + HourMs + 45 * MinuteMs, DayMs + 2 * HourMs + 15 * MinuteMs,
      DayMs + 12 * HourMs }

\* The time between the two new Date() of getNextAlarmTime: none, or 1 ms.
Lags == {0, 1}

\* The listeners that call initializeExtension.
InitRuns == {"onStartup", "onInstalled"}

IdleRun == [pc |-> "idle", config |-> Undef]
\* Runs of setupBlockingSchedule that can be under way at once.
SetupRuns == {1, 2}

\* Listeners of userIgnoredBlock that can be under way at once, and the
\* number of such messages that arrive.
IgnoreRuns == {1, 2}
MaxIgnored == 4
IdleIgnore == [pc |-> "idle", ignoredBlocks |-> <<>>]

\* The service worker: waiting updateSchedule messages, its runs, and the
\* key ignoredBlocks of chrome.storage.local, which it alone uses (entries
\* are named by their timestamp).
NoWorker ==
    [requests |-> 0, init |-> [r \in InitRuns |-> IdleRun],
     setup |-> [r \in SetupRuns |-> IdleRun],
     ignore |-> [r \in IgnoreRuns |-> IdleIgnore],
     arrived |-> 0, ignoredBlocks |-> <<>>]

\* What the background leaves alone: the popup, decisions, pages, the zone.
workerStep(op) ==
    /\ lastOp' = op
    /\ UNCHANGED <<popup, dec, tab, overlays, createdAt, handlers, overflow,
                   pending, outbox, nextProbe, runtimeOk, zone>>

\* chrome.storage.onChanged of an open options page, for a config stored
\* by somebody else: a value that differs from currentConfig replaces it.
storageOnChanged(newConfig) ==
    IF options.open /\ newConfig # options.currentConfig
    THEN [options EXCEPT !.currentConfig = newConfig, !.hasUnsavedChanges = FALSE]
    ELSE options

\* saveSettings, await by await.  Up to the await of line 1287: the
\* configuration is validated in memory and chrome.storage.sync.set is
\* issued; a rejected set ends the save in the catch of line 1299.  The
\* change of the store raises storage.onChanged in this page as well.
saveSettingsIssue(setOk) ==
    /\ options.open
    /\ options.hasUnsavedChanges
    /\ options.saving = "idle"
    /\ ~options.event
    /\ LET validated == validateAndFixConfig(options.currentConfig)
       IN  IF setOk
           THEN /\ storage' = [storage EXCEPT !.config = validated]
                /\ options' = [options EXCEPT !.currentConfig = validated,
                                              !.saving = "stored",
                                              !.event = TRUE]
           ELSE /\ options' = [options EXCEPT !.currentConfig = validated]
                /\ UNCHANGED storage
    /\ UNCHANGED <<worker, alarms>>
    /\ optionsStep(IF setOk THEN "saveSettings:stored" ELSE "saveSettings:failed")

\* The listener of line 2273 runs for the page's own change.
saveSettingsOnChanged ==
    /\ options.open
    /\ options.event
    /\ options' = [storageOnChanged(storage.config) EXCEPT !.event = FALSE]
    /\ UNCHANGED <<storage, worker, alarms>>
    /\ optionsStep("storage.onChanged")

\* Lines 1290-1298: the set and the sendMessage have been answered, the
\* flag is cleared.
saveSettingsDone(delivered) ==
    /\ options.open
    /\ options.saving = "stored"
    /\ worker.requests < MaxRequests
    /\ notify(delivered)
    /\ options' = [options EXCEPT !.hasUnsavedChanges = FALSE, !.saving = "idle"]
    /\ UNCHANGED <<storage, alarms>>
    /\ optionsStep("saveSettings:done")

\* initializeExtension up to the await of line 48: the read is answered.
initializeExtensionRead(run) ==
    /\ worker.init[run].pc = "idle"
    /\ worker' = [worker EXCEPT !.init[run] = [pc |-> "read", config |-> storage.config]]
    /\ UNCHANGED <<storage, alarms, options, now>>
    /\ workerStep("initializeExtension:read")

\* initializeExtension from line 50 on, with the result of its read: the
\* defaults are stored if that was empty, then the schedule is set up from
\* what is stored.  lag is the time between the two new Date() of
\* getNextAlarmTime.
initializeExtensionWrite(run, lag) ==
    /\ worker.init[run].pc = "read"
    /\ now + lag \in Instants
    /\ worker' = [worker EXCEPT !.init[run] = IdleRun]
    /\ LET absent == ~Truthy(worker.init[run].config)
           stored == IF absent THEN DEFAULT_CONFIG ELSE storage.config
       IN  /\ storage' = [storage EXCEPT !.config = stored]
           /\ options' = IF absent THEN storageOnChanged(DEFAULT_CONFIG) ELSE options
           /\ alarms' = setupBlockingSchedule(stored, alarms, zone, now, now + lag)
           /\ lastOp' = IF absent THEN "initializeExtension:defaults"
                        ELSE "initializeExtension:kept"
    /\ now' = now + lag
    /\ UNCHANGED <<popup, dec, tab, overlays, createdAt, handlers, overflow,
                   pending, outbox, nextProbe, runtimeOk, zone>>

\* onMessage, action updateSchedule: setupBlockingSchedule().
updateSchedule(lag) ==
    /\ worker.requests > 0
    /\ now + lag \in Instants
    /\ worker' = [worker EXCEPT !.requests = @ - 1]
    /\ alarms' = setupBlockingSchedule(storage.config, alarms, zone, now, now + lag)
    /\ now' = now + lag
    /\ UNCHANGED <<storage, options>>
    /\ workerStep("updateSchedule")

\* setupBlockingSchedule, await by await, for an updateSchedule message.  Up
\* to the await of line 70: the read is answered; line 72 returns (or the
\* catch is entered) when there is nothing to set up.
setupBlockingScheduleRead(run) ==
    /\ worker.requests > 0
    /\ worker.setup[run].pc = "idle"
    /\ LET config == storage.config
           skip == \/ ~Truthy(config)
                   \/ config.v.schedule.t # "object"
                   \/ ~Truthy(config.v.schedule.v.enabled)
       IN  /\ worker' = [worker EXCEPT
                           !.requests = @ - 1,
                           !.setup[run] = IF skip THEN IdleRun
                                          ELSE [pc |-> "read", config |-> config]]
           /\ UNCHANGED <<storage, alarms, options, now>>
           /\ workerStep(IF skip THEN "setup:skipped" ELSE "setup:read")

\* Line 76: await chrome.alarms.clearAll().
setupBlockingScheduleClear(run) ==
    /\ worker.setup[run].pc = "read"
    /\ worker' = [worker EXCEPT !.setup[run].pc = "cleared"]
    /\ alarms' = NoAlarms
    /\ UNCHANGED <<storage, options, now>>
    /\ workerStep("setup:cleared")

\* Lines 79-91: the two alarms are created from the configuration the run
\* read at line 70.
setupBlockingScheduleCreate(run, lag) ==
    /\ worker.setup[run].pc = "cleared"
    /\ now + lag \in Instants
    /\ worker' = [worker EXCEPT !.setup[run] = IdleRun]
    /\ alarms' = setupBlockingSchedule(worker.setup[run].config, alarms, zone,
                                       now, now + lag)
    /\ now' = now + lag
    /\ UNCHANGED <<storage, options>>
    /\ workerStep("setup:created")

\* Lines 604-607: only the last 100 ignored blocks are kept.
IgnoredBlocksKept == 100

\* A variant that drops the newest entries instead of the oldest.
keepFirst(ignoredBlocks) ==
    IF Len(ignoredBlocks) > IgnoredBlocksKept
    THEN SubSeq(ignoredBlocks, 1, IgnoredBlocksKept)
    ELSE ignoredBlocks

keepLast(ignoredBlocks) ==
    IF Len(ignoredBlocks) > IgnoredBlocksKept
    THEN SubSeq(ignoredBlocks, Len(ignoredBlocks) - IgnoredBlocksKept + 1,
                Len(ignoredBlocks))
    ELSE ignoredBlocks

\* The listener for userIgnoredBlock up to the await of line 597: the list
\* is read; lines 598-607 work on that copy.  The message carries the
\* timestamp of the click, later than that of every entry before it.
userIgnoredBlockRead(run) ==
    /\ worker.arrived < MaxIgnored
    /\ worker.ignore[run].pc = "idle"
    /\ LET timestamp == IgnoredBlocksKept + worker.arrived + 1
       IN  worker' = [worker EXCEPT
                        !.arrived = @ + 1,
                        !.ignore[run] =
                            [pc |-> "read",
                             ignoredBlocks |->
                                 keepLast(Append(worker.ignoredBlocks, timestamp))]]
    /\ UNCHANGED <<storage, alarms, options, now>>
    /\ workerStep("userIgnoredBlock:read")

\* Line 609: the list of the listener is stored; a rejected set is logged.
userIgnoredBlockStore(run, setOk) ==
    /\ worker.ignore[run].pc = "read"
    /\ worker' = [worker EXCEPT
                    !.ignore[run] = IdleIgnore,
                    !.ignoredBlocks = IF setOk THEN worker.ignore[run].ignoredBlocks
                                      ELSE @]
    /\ UNCHANGED <<storage, alarms, options, now>>
    /\ workerStep(IF setOk THEN "userIgnoredBlock:stored"
                  ELSE "userIgnoredBlock:failed")

\* chrome.alarms fires an alarm that is due: the listener of line 128 logs
\* its name, and the alarm is due again a period later.
onAlarm(name) ==
    /\ alarms[name].present
    /\ ~alarms[name].when.nan
    /\ alarms[name].when.v <= now
    /\ alarms' = [alarms EXCEPT
                    ![name].when = Num(@.v + alarms[name].periodInMinutes * MinuteMs)]
    /\ UNCHANGED <<storage, worker, options, now>>
    /\ workerStep("onAlarm")

\* Time passes, up to the instant t.
timePasses(t) ==
    /\ t \in Instants
    /\ t > now
    /\ now' = t
    /\ UNCHANGED <<storage, alarms, worker, options>>
    /\ workerStep("timePasses")

-----------------------------------------------------------------------------
(* Specifications.                                                         *)

PageIdle(url) ==
    /\ tab = [hist |-> <<Entry(url, FALSE)>>, idx |-> 1]
    /\ overlays = <<>>
    /\ createdAt = [e \in Elements |-> Undef]
    /\ handlers = {}
    /\ overflow = ""
    /\ pending = [u \in PageUrls |-> 0]
    /\ outbox = 0
    /\ now = 0
    /\ nextProbe = ProbeMs
    /\ runtimeOk = TRUE
    /\ lastOp = "init"

\* No alarm yet, no run of initializeExtension, the options page closed, in
\* the zone z.
SettingsIdle(z) ==
    /\ alarms = NoAlarms
    /\ worker = NoWorker
    /\ options = NoOptions
    /\ zone = z

\* The decision service: any stored configuration and flag.
DecisionInit ==
    /\ storage \in [config : StoredConfigs, temporaryDisabled : StoredFlags,
                    temperaryDisabled : {Undef}]
    /\ popup = NoPopup
    /\ dec = NoDecision
    /\ PageIdle(BlankUrl)
    /\ SettingsIdle(NoChange)

DecisionNext ==
    \/ \E url \in Urls, day \in Days, time \in TimesOfDay, readOk \in BOOLEAN :
          Decide(url, day, time, readOk)
    \/ DecisionUsed

DecisionSpec == DecisionInit /\ [][DecisionNext]_vars

\* A page of the tab, the scenario configuration stored.
Init ==
    /\ storage = [config |-> ScenarioConfig, temporaryDisabled |-> Undef,
                  temperaryDisabled |-> Undef]
    /\ popup = NoPopup
    /\ dec = NoDecision
    /\ \E url \in PageUrls : PageIdle(url)
    /\ SettingsIdle(NoChange)

\* The overlay of a page while the tab navigates, within the 30 s before the
\* intervals of the content script fire.
Next ==
    \/ \E status \in {"loading", "complete", "undefined"}, wc \in WallClocks :
          tabsOnUpdated(status, wc)
    \/ \E wc \in WallClocks : tabsOnActivated(wc)
    \/ \E wc \in WallClocks : urlChangedTimeout(wc)
    \/ \E wc \in WallClocks : tabVisible(wc)
    \/ \E url \in PageUrls : injectionTimeout(url)
    \/ \E url \in PageUrls : navigate(url)
    \/ \E url \in PageUrls, noticed \in BOOLEAN : pushState(url, noticed)
    \/ \E url \in PageUrls, noticed \in BOOLEAN : replaceState(url, noticed)
    \/ browserBack
    \/ \E el \in Elements, navThrows \in BOOLEAN : primaryClick(el, navThrows)
    \/ \E el \in Elements, sendOutcome \in {"ok", "throws", "rejects"} :
          secondaryClickEvent(el, sendOutcome)
    \/ escapeKey
    \/ emergencyHotkey
    \/ runtimeLost

Spec == Init /\ [][Next]_vars

\* The overlay of a page that stays where it is, for as long as an overlay
\* can live.
ExpiryNext ==
    \/ \E wc \in WallClocks : tabVisible(wc)
    \/ \E url \in PageUrls : injectionTimeout(url)
    \/ \E el \in Elements, sendOutcome \in {"ok", "throws", "rejects"} :
          secondaryClickEvent(el, sendOutcome)
    \/ escapeKey
    \/ emergencyHotkey
    \/ cleanupInterval
    \/ checkExtensionContext
    \/ runtimeLost

ExpirySpec == Init /\ [][ExpiryNext]_vars

\* setInterval keeps firing both intervals of the content script.
FairExpirySpec ==
    /\ ExpirySpec
    /\ WF_vars(cleanupInterval)
    /\ WF_vars(checkExtensionContext)

\* Every way an overlay leaves a page: the buttons (the primary one unloads
\* the document, steps back inside it or falls back to removing the overlay),
\* Escape, the hotkey, the sweep and the probe.
DismissNext ==
    \/ ExpiryNext
    \/ pushState("https://youtube.com/watch?v=1", FALSE)
    \/ \E el \in Elements, navThrows \in BOOLEAN : primaryClick(el, navThrows)

DismissSpec == Init /\ [][DismissNext]_vars

\* The quick-toggle of the popup and the injections of the background on a
\* page that stays.
PopupNext ==
    \/ loadStatus
    \/ \E setOk \in BOOLEAN : toggleBlocking(setOk)
    \/ popupClose
    \/ \E status \in {"loading", "complete", "undefined"}, wc \in WallClocks :
          tabsOnUpdated(status, wc)
    \/ \E wc \in WallClocks : tabsOnActivated(wc)
    \/ \E wc \in WallClocks : tabVisible(wc)
    \/ \E url \in PageUrls : injectionTimeout(url)
    \/ \E el \in Elements, sendOutcome \in {"ok", "throws", "rejects"} :
          secondaryClickEvent(el, sendOutcome)
    \/ escapeKey
    \/ emergencyHotkey

PopupSpec == Init /\ [][PopupNext]_vars

\* Windows entered on the options page while the alarms are watched: the
\* whole day, the hour around a clock change, and one that ends before it
\* starts.
AlarmWindows ==
    { <<"00:00", "23:59">>, <<"01:30", "02:30">>, <<"17:00", "09:00">> }

\* The alarms of the background over a weekend, with the schedule edited on
\* the options page, in every zone.
AlarmInit ==
    /\ storage = [config |-> ScenarioConfig, temporaryDisabled |-> Undef,
                  temperaryDisabled |-> Undef]
    /\ popup = NoPopup
    /\ dec = NoDecision
    /\ PageIdle(BlankUrl)
    /\ \E z \in Zones : SettingsIdle(z)

AlarmNext ==
    \/ \E setOk \in BOOLEAN, delivered \in BOOLEAN : optionsOpen(setOk, delivered)
    \/ \E checked \in BOOLEAN : toggleSchedule(checked)
    \/ \E w \in AlarmWindows, confirmed \in BOOLEAN :
          updateScheduleTime(w[1], w[2], confirmed)
    \/ \E setOk \in BOOLEAN, delivered \in BOOLEAN : saveSettings(setOk, delivered)
    \/ \E lag \in Lags : updateSchedule(lag)
    \/ \E name \in AlarmNames : onAlarm(name)
    \/ \E t \in Instants : timePasses(t)

AlarmSpec == AlarmInit /\ [][AlarmNext]_vars

\* URLs decisions are asked for while the configuration is edited.
LiveUrls == {"https://youtube.com/", "https://example.com/"}

\* Decisions of the background while the schedule is switched on and off on
\* the options page, alarms are set up and fire, and time passes.
LiveInit ==
    /\ storage \in [config : {ScenarioConfig}, temporaryDisabled : StoredFlags,
                    temperaryDisabled : {Undef}]
    /\ popup = NoPopup
    /\ dec = NoDecision
    /\ PageIdle(BlankUrl)
    /\ SettingsIdle(NoChange)

LiveNext ==
    \/ \E url \in LiveUrls, wc \in WallClocks, readOk \in BOOLEAN :
          Decide(url, wc[1], wc[2], readOk)
    \/ DecisionUsed
    \/ \E setOk \in BOOLEAN, delivered \in BOOLEAN : optionsOpen(setOk, delivered)
    \/ \E checked \in BOOLEAN : toggleSchedule(checked)
    \/ \E setOk \in BOOLEAN, delivered \in BOOLEAN : saveSettings(setOk, delivered)
    \/ \E lag \in Lags : updateSchedule(lag)
    \/ \E name \in AlarmNames : onAlarm(name)
    \/ \E t \in Instants : timePasses(t)

LiveSpec == LiveInit /\ [][LiveNext]_vars

\* The default configuration stored, the options page closed, nothing set
\* up yet.
OptionsInit ==
    /\ storage = [config |-> DEFAULT_CONFIG, temporaryDisabled |-> Undef,
                  temperaryDisabled |-> Undef]
    /\ popup = NoPopup
    /\ dec = NoDecision
    /\ PageIdle(BlankUrl)
    /\ SettingsIdle(NoChange)

\* Values of the two time inputs: the default window, one that ends before
\* it starts, one of more than 16 hours, and one with the start left empty.
EditWindows ==
    { <<"09:00", "17:00">>, <<"17:00", "09:00">>, <<"00:30", "17:00">>,
      <<"", "17:00">> }

\* Files handed to the import: with a schedule that ends before it starts
\* and one whose times are no times, with an empty list of messages and
\* with none.
ScheduleFiles ==
    { Config(DEFAULT_CONFIG.v.blockedSites,
             Schedule(Bool(TRUE), Str("17:00"), Str("09:00"), WorkWeek),
             DefaultMessages, Bool(TRUE)),
      Config(DEFAULT_CONFIG.v.blockedSites,
             Schedule(Bool(TRUE), Str("9"), Undef, WorkWeek),
             DefaultMessages, Bool(TRUE)) }
MessageFiles ==
    { Config(DEFAULT_CONFIG.v.blockedSites,
             Schedule(Bool(TRUE), Str("09:00"), Str("17:00"), WorkWeek),
             Arr(<<>>), Bool(TRUE)),
      Config(DEFAULT_CONFIG.v.blockedSites,
             Schedule(Bool(TRUE), Str("09:00"), Str("17:00"), WorkWeek),
             Undef, Bool(TRUE)) }

\* The schedule of the options page: the time inputs, the wizard with its
\* preselected sites and days, import, backup and restore, reset, and save.
ScheduleEditNext ==
    \/ \E setOk \in BOOLEAN, delivered \in BOOLEAN : optionsOpen(setOk, delivered)
    \/ optionsClose
    \/ \E w \in EditWindows, confirmed \in BOOLEAN :
          updateScheduleTime(w[1], w[2], confirmed)
    \/ \E w \in EditWindows :
          finishQuickSetup(DEFAULT_CONFIG.v.blockedSites, w[1], w[2], WorkWeek,
                           "", TRUE, TRUE)
    \/ \E file \in ScheduleFiles, confirmed \in BOOLEAN :
          importSettings(file, confirmed)
    \/ createConfigurationBackup
    \/ \E confirmed \in BOOLEAN : restoreConfigurationBackup(confirmed)
    \/ resetSettings(TRUE, TRUE)
    \/ \E setOk \in BOOLEAN, delivered \in BOOLEAN : saveSettings(setOk, delivered)
    \/ \E lag \in Lags : updateSchedule(lag)

ScheduleEditSpec == OptionsInit /\ [][ScheduleEditNext]_vars

\* The messages of the options page: add, edit and remove at the head of
\* the list, drag the first message behind the second, import, reset, save.
MessagesNext ==
    \/ \E setOk \in BOOLEAN, delivered \in BOOLEAN : optionsOpen(setOk, delivered)
    \/ \E text \in MessageTexts : addMessage(text)
    \/ \E text \in MessageTexts, cancelled \in BOOLEAN : editMessage(0, text, cancelled)
    \/ \E confirmed \in BOOLEAN : removeMessage(0, confirmed)
    \/ reorderMessages(0, 1)
    \/ \E file \in MessageFiles, confirmed \in BOOLEAN :
          importSettings(file, confirmed)
    \/ resetSettings(TRUE, TRUE)
    \/ \E setOk \in BOOLEAN, delivered \in BOOLEAN : saveSettings(setOk, delivered)
    \/ \E lag \in Lags : updateSchedule(lag)

MessagesSpec == OptionsInit /\ [][MessagesNext]_vars

\* The list of sites, edited in the popup and in the options page.
SitesNext ==
    \/ optionsOpen(TRUE, TRUE)
    \/ loadStatus
    \/ popupClose
    \/ \E input \in SiteInputs, setOk \in BOOLEAN : quickAddSite(input, setOk)
    \/ \E input \in SiteInputs : addSite(input)
    \/ \E input \in SiteInputs, cancelled \in BOOLEAN : editSite(0, input, cancelled)
    \/ \E sitesText \in BulkTexts : addMultipleSites(sitesText)
    \/ \E setOk \in BOOLEAN, delivered \in BOOLEAN : saveSettings(setOk, delivered)
    \/ \E lag \in Lags : updateSchedule(lag)

SitesSpec == OptionsInit /\ [][SitesNext]_vars

\* Runs of setupBlockingSchedule that overlap while the times of the
\* schedule are edited and saved on the options page.
OverlapNext ==
    \/ optionsOpen(TRUE, TRUE)
    \/ \E w \in EditWindows : updateScheduleTime(w[1], w[2], TRUE)
    \/ saveSettings(TRUE, TRUE)
    \/ \E run \in SetupRuns : setupBlockingScheduleRead(run)
    \/ \E run \in SetupRuns : setupBlockingScheduleClear(run)
    \/ \E run \in SetupRuns, lag \in Lags : setupBlockingScheduleCreate(run, lag)

OverlapSpec == OptionsInit /\ [][OverlapNext]_vars

\* The options page is opened on whatever is stored, edited while a save
\* may be under way, and saved.
UnsavedInit ==
    /\ storage \in [config : {Undef, DEFAULT_CONFIG,
                               Config(Undef, DEFAULT_CONFIG.v.schedule,
                                      DefaultMessages, Bool(TRUE))},
                    temporaryDisabled : {Undef}, temperaryDisabled : {Undef}]
    /\ popup = NoPopup
    /\ dec = NoDecision
    /\ PageIdle(BlankUrl)
    /\ SettingsIdle(NoChange)

UnsavedNext ==
    \/ \E setOk \in BOOLEAN, delivered \in BOOLEAN : optionsOpen(setOk, delivered)
    \/ optionsClose
    \/ \E checked \in BOOLEAN : toggleSchedule(checked)
    \/ \E w \in EditWindows : updateScheduleTime(w[1], w[2], TRUE)
    \/ \E setOk \in BOOLEAN : saveSettingsIssue(setOk)
    \/ saveSettingsOnChanged
    \/ \E delivered \in BOOLEAN : saveSettingsDone(delivered)
    \/ \E lag \in Lags : updateSchedule(lag)

UnsavedSpec == UnsavedInit /\ [][UnsavedNext]_vars

\* Reports of ignored blocks arrive at a service worker whose list is
\* empty, one short of full, or full.
IgnoredLists ==
    { [i \in 1..n |-> i] : n \in {0, IgnoredBlocksKept - 1, IgnoredBlocksKept} }

IgnoreInit ==
    /\ storage = [config |-> DEFAULT_CONFIG, temporaryDisabled |-> Undef,
                  temperaryDisabled |-> Undef]
    /\ popup = NoPopup
    /\ dec = NoDecision
    /\ PageIdle(BlankUrl)
    /\ alarms = NoAlarms
    /\ options = NoOptions
    /\ zone = NoChange
    /\ \E list \in IgnoredLists : worker = [NoWorker EXCEPT !.ignoredBlocks = list]

IgnoreNext ==
    \/ \E run \in IgnoreRuns : userIgnoredBlockRead(run)
    \/ \E run \in IgnoreRuns, setOk \in BOOLEAN : userIgnoredBlockStore(run, setOk)

IgnoreSpec == IgnoreInit /\ [][IgnoreNext]_vars

\* Configuration objects handed to validateAndFixConfig: every field
\* missing, of a wrong type, empty, or as it should be.
ValidateTimes ==
    { Undef, Str(""), Str("09:00"), Str("9:00"), Str("25:00"), Num(9),
      Arr(<<Str("09:00")>>) }
ValidateSchedules ==
    { Undef, Str("always") }
    \cup { Schedule(e, st, et, d) :
             e \in {Undef, Bool(FALSE), Str("yes")},
             st \in ValidateTimes,
             et \in {Undef, Str("17:00"), Str("late")},
             d \in {Undef, Weekend} }
ValidateInputs ==
    { Config(b, s, m, tts) :
        b \in {Undef, Str("youtube.com"), Arr(<<>>)},
        s \in ValidateSchedules,
        m \in {Undef, Arr(<<>>), Arr(<<Str("Hello from 3 hours from now")>>)},
        tts \in {Undef, Bool(FALSE), Num(1)} }

\* The options page holds any such object and validates it.
ValidateInit ==
    /\ storage = [config |-> DEFAULT_CONFIG, temporaryDisabled |-> Undef,
                  temperaryDisabled |-> Undef]
    /\ popup = NoPopup
    /\ dec = NoDecision
    /\ PageIdle(BlankUrl)
    /\ alarms = NoAlarms
    /\ worker = NoWorker
    /\ zone = NoChange
    /\ \E config \in ValidateInputs :
           options = [NoOptions EXCEPT !.open = TRUE, !.currentConfig = config]

ValidateNext == validateCurrentConfig

ValidateSpec == ValidateInit /\ [][ValidateNext]_vars

\* The extension has just been installed: nothing is stored.
StartupInit ==
    /\ storage = [config |-> Undef, temporaryDisabled |-> Undef,
                  temperaryDisabled |-> Undef]
    /\ popup = NoPopup
    /\ dec = NoDecision
    /\ PageIdle(BlankUrl)
    /\ SettingsIdle(NoChange)

\* The runs of initializeExtension, next to an options page on which the
\* schedule is switched on and off and saved.
StartupNext ==
    \/ \E run \in InitRuns : initializeExtensionRead(run)
    \/ \E run \in InitRuns, lag \in Lags : initializeExtensionWrite(run, lag)
    \/ \E setOk \in BOOLEAN, delivered \in BOOLEAN : optionsOpen(setOk, delivered)
    \/ optionsClose
    \/ \E checked \in BOOLEAN : toggleSchedule(checked)
    \/ \E setOk \in BOOLEAN, delivered \in BOOLEAN : saveSettings(setOk, delivered)
    \/ \E lag \in Lags : updateSchedule(lag)

StartupSpec == StartupInit /\ [][StartupNext]_vars

-----------------------------------------------------------------------------
(* The decision: properties of shouldBlockCurrentSite, under DecisionSpec.  *)

\* The stored flag is what the decision read and it is true.
FlagSet == dec.called /\ dec.temporaryDisabled = Bool(TRUE)

\* The decision the same call takes with the flag cleared.
WithoutFlag ==
    shouldBlockCurrentSite(dec.url,
                           [config |-> dec.config, temporaryDisabled |-> Bool(FALSE),
                            temperaryDisabled |-> Undef],
                           TRUE, dec.day, dec.time).value

\* C1: shouldBlockCurrentSite returns false whenever the stored
\* temporaryDisabled flag is true, whatever the URL, the block list, the
\* schedule and the wall-clock time.
C1_DisabledNeverBlocks == FlagSet => (~dec.raised /\ ~dec.result)

\* A call with the flag set that would block with the flag cleared.
C1_Witness == FlagSet /\ dec.readOk /\ WithoutFlag /\ ~dec.result

\* The clock strings of minute m of hour h: "HH:MM", and "H:MM" before 10.
TwoDigits(n) == IF n < 10 THEN "0" \o toString(n) ELSE toString(n)
ClockStrings(h, m) ==
    { TwoDigits(h) \o ":" \o TwoDigits(m), toString(h) \o ":" \o TwoDigits(m) }

\* hh * 60 + mm of a clock string, found by writing the clock out.
ClockMinutes(s) ==
    LET hm == CHOOSE hm \in { <<h, m>> : h \in 0..23, m \in 0..59 } :
                  s \in ClockStrings(hm[1], hm[2])
    IN  hm[1] * 60 + hm[2]

WindowMinutes ==
    [s \in { w[i] : w \in Windows, i \in {1, 2} } |-> ClockMinutes(s)]

\* The schedule part as the specification states it.
WithinWindow(schedule, day, minute) ==
    \/ ~schedule.enabled.v
    \/ /\ \E i \in 1..Len(schedule.workDays.v) : schedule.workDays.v[i] = Num(day)
       /\ WindowMinutes[schedule.startTime.v] <= minute
       /\ minute <= WindowMinutes[schedule.endTime.v]

\* A call that reaches the schedule part: the read resolved, the flag is not
\* set, the configuration is well formed and the site has matched.
ReachesSchedule ==
    /\ dec.called /\ dec.readOk /\ ~Truthy(dec.temporaryDisabled)
    /\ dec.config \in WellFormedConfigs
    /\ urlHostname(dec.url).kind = "return"
    /\ someSiteMatches(toLowerCase(urlHostname(dec.url).value),
                       dec.config.v.blockedSites.v) = Return(TRUE)

\* C2: the schedule part of the decision is true exactly when
\* schedule.enabled is false, or the day is in workDays and
\* start <= minute <= end, both ends inclusive, start and end being hh*60+mm
\* of startTime and endTime; with 09:00-17:00 on days 1..5, Monday 09:00 is
\* true, Monday 08:59 false, Monday 17:00 true and Saturday 12:00 false.
C2_ScheduleWindow ==
    /\ ReachesSchedule =>
          (dec.result = WithinWindow(dec.config.v.schedule.v, dec.day, dec.time))
    /\ scheduleCheck(DEFAULT_CONFIG.v.schedule, 1, Minute(9, 0)) = Return(TRUE)
    /\ scheduleCheck(DEFAULT_CONFIG.v.schedule, 1, Minute(8, 59)) = Return(FALSE)
    /\ scheduleCheck(DEFAULT_CONFIG.v.schedule, 1, Minute(17, 0)) = Return(TRUE)
    /\ scheduleCheck(DEFAULT_CONFIG.v.schedule, 6, Minute(12, 0)) = Return(FALSE)

\* A decision taken on a work day at the last minute of the window.
C2_Witness ==
    /\ ReachesSchedule
    /\ dec.config.v.schedule.v.enabled = Bool(TRUE)
    /\ dec.day = 1
    /\ dec.time = WindowMinutes[dec.config.v.schedule.v.endTime.v]
    /\ dec.result

\* The hostname of each URL that has one, written out.
ExpectedHost ==
    [u \in { "https://m.youtube.com/watch?v=1", "https://youtube.com/",
             "https://YouTube.com/feed", "https://example.com/", "about:blank" } |->
        CASE u = "https://m.youtube.com/watch?v=1" -> "m.youtube.com"
          [] u = "https://youtube.com/" -> "youtube.com"
          [] u = "https://YouTube.com/feed" -> "youtube.com"
          [] u = "https://example.com/" -> "example.com"
          [] OTHER -> ""]

\* The number of a letter in the alphabet, 0 for any other character.
LetterNo(c) == IndexIn(UpperCase, c) + IndexIn(LowerCase, c)

\* a and b are the same string up to the case of their letters.
SameLetters(a, b) ==
    /\ Len(a) = Len(b)
    /\ \A k \in 1..Len(a) :
          /\ LetterNo(CharAt(a, k)) = LetterNo(CharAt(b, k))
          /\ LetterNo(CharAt(a, k)) = 0 => CharAt(a, k) = CharAt(b, k)

\* t, lowercased, is a substring of s, lowercased.
ContainsIgnoringCase(s, t) ==
    \E i \in 0..Len(s) : \E j \in i..Len(s) : SameLetters(SubSeq(s, i + 1, j), t)

\* The site match as the specification states it.
Matches(hostname, sites) ==
    \E i \in 1..Len(sites) :
        \/ ContainsIgnoringCase(hostname, sites[i].v)
        \/ ContainsIgnoringCase(sites[i].v, hostname)

\* A call whose outcome is the site match: the schedule is switched off.
ReachesMatch ==
    /\ dec.called /\ dec.readOk /\ ~Truthy(dec.temporaryDisabled)
    /\ dec.config \in WellFormedConfigs
    /\ dec.config.v.schedule = ScheduleOff
    /\ dec.url \in DOMAIN ExpectedHost

\* C3: the site match is true exactly when some entry, lowercased, is a
\* substring of the lowercased hostname or contains it; (m.youtube.com,
\* [youtube.com]) matches, (example.com, [youtube.com]) does not, and
\* (youtube.com, [tube.com]) matches.
C3_SiteMatch ==
    /\ ReachesMatch =>
          (dec.result = Matches(ExpectedHost[dec.url], dec.config.v.blockedSites.v))
    /\ someSiteMatches("m.youtube.com", <<Str("youtube.com")>>) = Return(TRUE)
    /\ someSiteMatches("example.com", <<Str("youtube.com")>>) = Return(FALSE)
    /\ someSiteMatches("youtube.com", <<Str("tube.com")>>) = Return(TRUE)

\* A match by an entry that contains the hostname.
C3_Witness ==
    /\ ReachesMatch
    /\ dec.url = "https://m.youtube.com/watch?v=1"
    /\ dec.config.v.blockedSites = Arr(<<Str("m.youtube.com.au")>>)
    /\ dec.result

\* The call has nothing sound to decide on: the read was rejected, the URL
\* does not parse, or the stored configuration is absent or is one the
\* options page would repair.
NothingToDecideOn ==
    \/ ~dec'.readOk
    \/ urlHostname(dec'.url).kind = "throw"
    \/ dec'.config = Undef
    \/ needsRepair(dec'.config)

\* C4: shouldBlockCurrentSite never raises to its caller; when the URL
\* cannot be parsed, the storage read is rejected, or the stored config is
\* absent or malformed, the result is false and the storage is unchanged.
C4_FailsOpen ==
    [][ (~dec.called /\ dec'.called) =>
            /\ ~dec'.raised
            /\ storage' = storage
            /\ NothingToDecideOn => ~dec'.result ]_vars

\* A decision to block taken on a configuration whose schedule has no
\* enabled field.
C4_Witness ==
    /\ dec.called /\ dec.readOk
    /\ dec.config = Config(Arr(<<Str("youtube.com")>>),
                           Schedule(Undef, Str("08:30"), Str("16:40"), WorkWeek),
                           DefaultMessages, Bool(TRUE))
    /\ dec.url = "https://youtube.com/"
    /\ dec.result

-----------------------------------------------------------------------------
(* The overlay of a page.                                                  *)

\* The step ran blockPage in the page: an injection timeout fired.
InjectionRan == \E u \in PageUrls : pending'[u] = pending[u] - 1

\* C5: a page has at most one overlay element, for any number and order of
\* injection requests and dismissals; an injection that finds an overlay
\* changes nothing in the page.
C5_AtMostOneOverlay ==
    [][ /\ Len(overlays') <= 1
        /\ (InjectionRan /\ overlays # <<>>) =>
              UNCHANGED <<overlays, createdAt, handlers, overflow>> ]_vars

\* An injection has just found the overlay of an earlier one.
C5_Witness == lastOp = "inject:noop" /\ Len(overlays) = 1 /\ overflow = "hidden"

\* C6: the secondary action removes the overlay and restores scrolling, also
\* when the report of userIgnoredBlock throws or is rejected; the page is
\* then without overlay, and an injection into it creates a fresh one.
C6_IgnoreDismisses ==
    [][ /\ lastOp' \in {"ignore", "ignore:failed"} =>
              (overlays' = <<>> /\ overflow' = "")
        /\ (InjectionRan /\ lastOp \in {"ignore", "ignore:failed"}
                /\ HttpUrl[location]) =>
              /\ Len(overlays') = 1
              /\ overlays'[1] \notin handlers
              /\ overflow' = "hidden" ]_vars

\* The overlay has been dismissed by the secondary action while the report
\* could not be sent.
C6_Witness == lastOp = "ignore:failed" /\ overlays = <<>> /\ overflow = ""

\* The step unloaded the document, or changed the URL inside the document.
Unloaded == lastOp' \in {"unload", "unload:overlay", "primary:unload"}
SameDocument == lastOp' \in {"samedoc", "samedoc:overlay", "primary:samedoc"}

\* C7 (as stated): whenever the URL of the page changes, a same-document
\* navigation included, the overlay is removed by that navigation.
C7_RemovedOnUrlChange ==
    [][ (location' # location /\ overlays # <<>>) => overlays' = <<>> ]_vars

\* C7 (amended): a navigation that unloads the document removes the overlay;
\* a same-document navigation (pushState, replaceState, a history step
\* between entries of one document) leaves the overlay as it is.
C7_RemovedOnUnload ==
    [][ /\ Unloaded => (overlays' = <<>> /\ overflow' = "")
        /\ SameDocument =>
              UNCHANGED <<overlays, createdAt, handlers, overflow>> ]_vars

\* A navigation has unloaded a document that showed the overlay.
C7_Witness == lastOp = "unload:overlay" /\ overlays = <<>> /\ overflow = ""

\* C8: after the primary action the overlay is no longer in the page,
\* whether history.back() unloads the document, is a same-document history
\* step, or the navigation fails.
C8_PrimaryDismisses ==
    lastOp \in {"primary:unload", "primary:samedoc", "primary:nowhere",
                "primary:fallback"} => overlays = <<>>

\* The primary action went back inside the document and the overlay stays.
C8_Witness == lastOp = "primary:samedoc" /\ overlays # <<>> /\ overflow = "hidden"

\* The instant whose Date.now().toString() is the stamp s.
StampedAt(s) == CHOOSE t \in TimeValues : NowString[t] = s

\* The time an overlay needs to be stamped and then to expire.
Lifetime == ExpiryMs + 2 * SweepMs

\* C9: on a page that stays, every overlay is eventually removed; once its
\* recorded timestamp is more than 5 minutes old, the next sweep removes it
\* and restores scrolling.
C9_SweepExpires ==
    /\ \A e \in Elements :
          (e \in Range(overlays) /\ now + Lifetime <= MaxNow)
              ~> (e \notin Range(overlays))
    /\ [][ (/\ now' = now + SweepMs
            /\ overlays # <<>>
            /\ createdAt[Head(overlays)] # Undef
            /\ now' - StampedAt(createdAt[Head(overlays)].v) > ExpiryMs) =>
              (overlays' = <<>> /\ overflow' = "") ]_vars

\* The sweep has just removed an overlay.
C9_Witness == lastOp = "sweep:expired" /\ overlays = <<>> /\ overflow = ""

\* C10: every overlay carries a creation timestamp from the moment it is
\* injected: no overlay is in the page without one.
C10_StampedFromInjection ==
    \A e \in Range(overlays) : Truthy(createdAt[e])

\* An overlay has just been injected and has no dataset.createdAt.
C10_Witness == lastOp = "inject" /\ overlays # <<>> /\ createdAt[Head(overlays)] = Undef

-----------------------------------------------------------------------------
(* The quick-toggle of the popup.                                          *)

Disabled == Truthy(storage.temporaryDisabled)

\* C11: each activation of the quick-toggle inverts the stored
\* temporaryDisabled flag, for any sequence of open / toggle / close; the
\* state the popup displays after loading is the negation of the stored flag.
C11_ToggleInverts ==
    [][ /\ lastOp' = "popup:loaded" => (popup'.isBlocking = ~Disabled')
        /\ lastOp' = "popup:toggled" => (Disabled' = ~Disabled) ]_vars

\* The popup has loaded while blocking is disabled and displays it as active.
C11_Witness == lastOp = "popup:loaded" /\ Disabled /\ popup.isBlocking

\* C12: while the stored temporaryDisabled flag is true no overlay is
\* injected: an injection scheduled before the flag was set does not take
\* place once it is true.
C12_NoInjectionWhileDisabled ==
    [][ (InjectionRan /\ Disabled) =>
            UNCHANGED <<overlays, createdAt, handlers, overflow>> ]_vars

\* An overlay has just been injected although blocking is disabled.
C12_Witness == lastOp = "inject" /\ Disabled /\ overlays # <<>>

-----------------------------------------------------------------------------
(* The alarms of the background, under AlarmSpec.                          *)

StoredSchedule == storage.config.v.schedule

\* C13: once an updateSchedule request has been processed, every alarm that
\* exists was created for the schedule that is stored now: the alarms there
\* were before have been cleared, none made for an earlier schedule remains.
C13_AlarmsFromCurrentSchedule ==
    [][ lastOp' = "updateSchedule" =>
            \A n \in AlarmNames :
                alarms'[n].present => alarms'[n].from = StoredSchedule' ]_vars

\* The stored schedule has been switched off, the request has been
\* processed, and the alarms of the schedule that was on are still there.
C13_Witness ==
    /\ lastOp = "updateSchedule"
    /\ ~Truthy(StoredSchedule.v.enabled)
    /\ \E n \in AlarmNames : alarms[n].present

\* The times of day a schedule of AlarmSpec holds, in milliseconds.
AlarmTimeOfDay ==
    [s \in {"09:00", "17:00", "00:00", "23:59", "01:30", "02:30"} |->
        ClockMinutes(s) * MinuteMs]

\* The instants of the model's four days whose local time of day is t.
Occurrences(z, t) ==
    { u \in { d * DayMs + t - k : d \in 0..3, k \in {0, z.shift} } :
        u >= 0 /\ LocalTime(z, u) % DayMs = t }

\* The first instant strictly after from whose local time of day is t.
FirstAfter(z, t, from) ==
    CHOOSE u \in Occurrences(z, t) :
        u > from /\ \A v \in Occurrences(z, t) : v > from => u <= v

\* The instant the local day of the instant u starts at.
StartOfDay(z, u) == UTC(z, (LocalTime(z, u) \div DayMs) * DayMs)

\* The clocks of the zone do not change from the start of the local day of
\* from until the instant to.
NoClockChange(z, from, to) ==
    z.shift = 0 \/ z.at > to \/ z.at <= StartOfDay(z, from)

\* A step that created the alarm n by getNextAlarmTime(t): what it read as
\* now, and what it returned.
Created(n) == lastOp' = "updateSchedule" /\ Truthy(StoredSchedule.v.enabled)
TimeAsked(n) ==
    AlarmTimeOfDay[IF n = "blockingStart" THEN StoredSchedule.v.startTime.v
                   ELSE StoredSchedule.v.endTime.v]
NowRead(n) == IF n = "blockingStart" THEN now ELSE now'
Returned(n) == alarms'[n].when.v

\* C20, as stated: getNextAlarmTime(t) returns the first instant strictly
\* after now whose time of day is t, later than now and at most 24 hours
\* later.
C20_FirstInstantWithin24h ==
    [][ \A n \in AlarmNames :
          Created(n) =>
            /\ Returned(n) = FirstAfter(zone, TimeAsked(n), NowRead(n))
            /\ Returned(n) > NowRead(n)
            /\ Returned(n) - NowRead(n) <= DayMs ]_vars

\* C20, amended: the result is later than now and at most 25 hours later;
\* when the clocks do not change between the start of today and the result,
\* it is the first instant strictly after now whose time of day is t, and at
\* most 24 hours later.
C20_NextLocalOccurrence ==
    [][ \A n \in AlarmNames :
          Created(n) =>
            /\ Returned(n) > NowRead(n)
            /\ Returned(n) - NowRead(n) <= DayMs + HourMs
            /\ NoClockChange(zone, NowRead(n), Returned(n)) =>
                  /\ Returned(n) = FirstAfter(zone, TimeAsked(n), NowRead(n))
                  /\ Returned(n) - NowRead(n) <= DayMs ]_vars

\* blockingStart was asked for at 09:00:00.000 sharp and is due tomorrow.
C20_Witness ==
    /\ lastOp = "updateSchedule"
    /\ alarms["blockingStart"].present
    /\ StoredSchedule.v.startTime.v = "09:00"
    /\ now = 9 * HourMs
    /\ alarms["blockingStart"].when = Num(DayMs + 9 * HourMs)

-----------------------------------------------------------------------------
(* Decisions while the configuration is edited, under LiveSpec.            *)

\* The configurations LiveSpec stores: the schedule on, and off.
LiveConfigs ==
    { [ScenarioConfig EXCEPT !.v.schedule.v.enabled = Bool(e)] : e \in BOOLEAN }

\* The decision as the specification derives it from the URL, the stored
\* configuration and flag, and the wall clock.
Derived ==
    [k \in { <<u, c, f, w>> : u \in LiveUrls, c \in LiveConfigs,
                              f \in StoredFlags, w \in WallClocks } |->
        /\ k[3] # Bool(TRUE)
        /\ Matches(ExpectedHost[k[1]], k[2].v.blockedSites.v)
        /\ WithinWindow(k[2].v.schedule.v, k[4][1], k[4][2])]

\* C14: a decision whose read resolves takes the configuration and the flag
\* that are stored when it is requested, and its result is a function of
\* the URL, these two values and the wall clock alone, whatever alarms
\* exist or have fired and whatever decisions were taken before.
C14_DecisionFromStoredValues ==
    [][ (~dec.called /\ dec'.called /\ dec'.readOk) =>
            /\ dec'.config = storage.config
            /\ dec'.temporaryDisabled = storage.temporaryDisabled
            /\ dec'.result =
                   Derived[<<dec'.url, storage.config, storage.temporaryDisabled,
                             <<dec'.day, dec'.time>> >>] ]_vars

\* A decision taken after the schedule was switched off and stored, with
\* the alarms of the schedule that was on still registered: it blocks at
\* 18:00, outside the window.
C14_Witness ==
    /\ dec.called /\ dec.readOk /\ dec.result
    /\ dec.time = Minute(18, 0)
    /\ dec.config = [ScenarioConfig EXCEPT !.v.schedule.v.enabled = Bool(FALSE)]
    /\ alarms["blockingStart"].present

-----------------------------------------------------------------------------
(* The options page, under ScheduleEditSpec and MessagesSpec.              *)

\* Minutes since midnight of the times a stored schedule holds.
EditMinutes ==
    [s \in {"00:30", "09:00", "17:00"} |-> ClockMinutes(s)]

StartBeforeEnd(schedule) ==
    EditMinutes[schedule.v.startTime.v] < EditMinutes[schedule.v.endTime.v]

\* C15: after every step of the options page the stored schedule has
\* startTime < endTime; an edit of the time inputs that is rejected leaves
\* the stored schedule and the one in memory as they were.
C15_StartBeforeEnd ==
    [][ /\ StartBeforeEnd(StoredSchedule')
        /\ lastOp' = "updateScheduleTime:rejected" =>
              UNCHANGED <<storage, options>> ]_vars

\* The wizard has stored a schedule from 17:00 to 09:00.
C15_Witness ==
    /\ lastOp = "finishQuickSetup"
    /\ StoredSchedule.v.startTime.v = "17:00"
    /\ StoredSchedule.v.endTime.v = "09:00"

StoredMessages == storage.config.v.despairMessages.v
CurrentMessages == options.currentConfig.v.despairMessages.v

\* C16: after every step of the options page the stored list of messages
\* has at least one element, and removeMessage on a list of one element
\* leaves the list as it is.
C16_MessagesNeverEmpty ==
    [][ /\ Len(StoredMessages') >= 1
        /\ (lastOp' \in {"removeMessage", "removeMessage:rejected"}
                /\ Len(CurrentMessages) = 1) =>
              CurrentMessages' = CurrentMessages ]_vars

\* The remove button was pressed on the only message of the list, and the
\* message is still there.
C16_Witness ==
    /\ lastOp = "removeMessage:rejected"
    /\ options.open
    /\ Len(CurrentMessages) = 1

-----------------------------------------------------------------------------
(* The first run, under StartupSpec.                                       *)

InitializeExtensionDone ==
    lastOp' \in {"initializeExtension:defaults", "initializeExtension:kept"}

\* C17: a run of initializeExtension stores the defaults only when nothing
\* is stored; it leaves a stored configuration as it is, also when two runs
\* overlap or a save of the options page falls between its read and its
\* write.
C17_DefaultsOnlyWhenAbsent ==
    [][ InitializeExtensionDone =>
            /\ ~Truthy(storage.config) => storage'.config = DEFAULT_CONFIG
            /\ Truthy(storage.config) => storage'.config = storage.config ]_vars

-----------------------------------------------------------------------------
(* The emergency hotkey and stale injections, under Spec.                  *)

\* C18: Ctrl+Shift+D leaves the page without overlay.  If there was one,
\* the overflow of the root element is restored; if there was none, the
\* document is left as it was.
C18_EmergencyCleanup ==
    [][ lastOp' = "emergency" =>
            /\ overlays' = <<>>
            /\ overlays # <<>> => overflow' = ""
            /\ overlays = <<>> =>
                  UNCHANGED <<overlays, createdAt, handlers, overflow>> ]_vars

\* The hotkey has been pressed on a page that had been given an overlay:
\* the overlay is gone, scrolling is back, the Escape listener of the
\* overlay is all that is left of it.
C18_Witness ==
    /\ lastOp = "emergency"
    /\ handlers # {}
    /\ overlays = <<>>
    /\ overflow = ""

\* The URL whose injection timeout fires in this step.
Fired(u) == pending'[u] = pending[u] - 1

\* The decision for u is 'block' at some moment of the page model.
Blocked(u) == \E wc \in WallClocks : decides(u, wc)

\* C19: the most recent navigation wins; an overlay is injected only into a
\* page whose URL at injection time is the URL the decision was made for, so
\* a tab that has moved to a URL that is not blocked shows no overlay.
C19_InjectedWhereDecided ==
    [][ lastOp' = "inject" => (Fired(location) /\ Blocked(location)) ]_vars

\* C19, as the code has it: a timeout is set only by a decision 'block' for
\* the URL the tab showed then, and when it fires the overlay goes into the
\* document the tab shows now, without a look at its URL: an http(s) page
\* without overlay gets one, also when its URL is not blocked; a page that
\* has an overlay is left alone; a document that cannot be scripted rejects
\* the injection.
C19_StaleInjectionTolerated ==
    [][ \A u \in PageUrls : Fired(u) =>
            /\ Blocked(u)
            /\ (HttpUrl[location] /\ overlays = <<>>) =>
                  (Len(overlays') = 1 /\ lastOp' = "inject")
            /\ (HttpUrl[location] /\ overlays # <<>>) =>
                  UNCHANGED <<overlays, createdAt, handlers, overflow>>
            /\ ~HttpUrl[location] => overlays' = overlays ]_vars

\* The tab left the blocked site during the delay and the stale injection
\* has put an overlay on a page that no decision blocks.
C19_Witness ==
    /\ lastOp = "inject"
    /\ location = "https://example.com/"
    /\ ~Blocked(location)
    /\ Len(overlays) = 1
    /\ overflow = "hidden"

-----------------------------------------------------------------------------
(* URL changes inside a document, under Spec.                              *)

\* The timeout of handleUrlChange has fired and the message is sent or fails.
UrlChangedSent == outbox' = outbox - 1 /\ tab' = tab

\* C21: every pushState call, replaceState call and popstate event of a
\* page makes the content script set the 100 ms timeout of handleUrlChange;
\* when it fires, the request is decided for the URL the page has then; a
\* send that fails is swallowed and leaves the page as it was.
C21_UrlChangeReported ==
    [][ /\ SameDocument => outbox' = outbox + 1
        /\ (UrlChangedSent /\ runtimeOk) =>
              \E wc \in WallClocks :
                 pending' = IF decides(location, wc)
                            THEN [pending EXCEPT ![location] = @ + 1]
                            ELSE pending
        /\ (UrlChangedSent /\ ~runtimeOk) =>
              UNCHANGED <<overlays, createdAt, handlers, overflow, pending>>
      ]_vars

\* The page has changed its URL with pushState or replaceState and no
\* timeout of handleUrlChange is waiting: the change went by unreported.
C21_Witness ==
    /\ lastOp \in {"samedoc", "samedoc:overlay"}
    /\ outbox = 0

-----------------------------------------------------------------------------
(* The liveness probe, under FairExpirySpec.                               *)

\* The 60 s interval of checkExtensionContext has fired in this step.
ProbeRan == nextProbe' = nextProbe + ProbeMs

\* C22: when the runtime is unreachable and an overlay is visible, the next
\* liveness probe removes the overlay and restores scrolling, and that probe
\* comes; while the runtime is reachable a probe changes nothing in the page.
C22_ProbeCleansUp ==
    /\ [][ ProbeRan =>
              /\ (~runtimeOk /\ overlays # <<>>) =>
                    (overlays' = <<>> /\ overflow' = "")
              /\ runtimeOk =>
                    UNCHANGED <<overlays, createdAt, handlers, overflow>>
         ]_vars
    /\ (~runtimeOk /\ overlays # <<>> /\ nextProbe <= MaxNow)
          ~> (overlays = <<>> /\ overflow = "")

\* A probe has found the runtime gone and removed the overlay of the page.
C22_Witness ==
    /\ lastOp = "probe:cleanup"
    /\ ~runtimeOk
    /\ handlers # {}
    /\ overlays = <<>>
    /\ overflow = ""

-----------------------------------------------------------------------------
(* Scrolling, under DismissSpec.                                           *)

\* C23: the overflow of the root element is 'hidden' exactly when an overlay
\* is attached; every removal of an overlay restores it, and the Escape
\* handler of a dismissed overlay does not restore it under a newer overlay
\* that stays.
C23_ScrollLockedIffOverlay ==
    (overflow = "hidden") <=> (overlays # <<>>)

\* An overlay is visible on a page where the Escape handler of an earlier,
\* dismissed overlay is still registered.
C23_Witness ==
    /\ lastOp = "inject"
    /\ overlays # <<>>
    /\ handlers \ Range(overlays) # {}
    /\ overflow = "hidden"

-----------------------------------------------------------------------------
(* URLs that are not http(s), under DecisionSpec: the listeners of          *)
(* urlChanged and tabVisible hand request.url to shouldBlockCurrentSite as  *)
(* it comes.                                                                *)

\* C24: no injection path asks for an overlay on a URL whose scheme is not
\* http or https; a URL with an empty hostname is never decided as 'block'.
C24_NonHttpNeverBlocked ==
    (dec.called /\ ~isHttpUrl(dec.url)) => ~dec.result

\* about:blank has been decided as 'block'.
C24_Witness ==
    /\ dec.called
    /\ dec.url = "about:blank"
    /\ urlHostname(dec.url) = Return("")
    /\ dec.result

-----------------------------------------------------------------------------
(* The list of blocked sites, under SitesSpec.                             *)

\* The entries of a configuration's blockedSites, none if there is none.
SitesOf(config) ==
    IF Truthy(config) THEN Range(config.v.blockedSites.v) ELSE {}

\* C25: after any sequence of site additions and edits, in the options page
\* and in the popup, on input that is not blank, no list of blocked sites, in
\* memory or stored, holds an empty string.
C25_NoEmptySite ==
    Str("") \notin SitesOf(storage.config) \cup SitesOf(options.currentConfig)
                  \cup SitesOf(popup.currentConfig)

\* The quick add of the popup has stored an empty entry.
C25_Witness ==
    /\ lastOp = "quickAddSite"
    /\ Str("") \in SitesOf(storage.config)

-----------------------------------------------------------------------------
(* Overnight windows, under DecisionSpec.                                  *)

\* A decision on a well-formed configuration whose schedule is enabled and
\* starts later in the day than it ends.
Overnight ==
    /\ dec.called
    /\ dec.config \in WellFormedConfigs
    /\ dec.config.v.schedule.v.enabled = Bool(TRUE)
    /\ WindowMinutes[dec.config.v.schedule.v.startTime.v]
          > WindowMinutes[dec.config.v.schedule.v.endTime.v]

\* C26: with an enabled schedule whose startTime is later than its endTime
\* the decision is 'do not block' on every day at every minute: the window
\* is not carried across midnight.
C26_OvernightNeverBlocks == Overnight => (~dec.raised /\ ~dec.result)

\* A work day, a minute before midnight, the site matched, the flag not set:
\* inside the night the window 17:00-09:00 names, and not blocked.
C26_Witness ==
    /\ Overnight
    /\ ReachesSchedule
    /\ arrayIncludes(dec.config.v.schedule.v.workDays.v, Num(dec.day))
    /\ dec.time = Minute(23, 59)
    /\ ~dec.result

-----------------------------------------------------------------------------
(* Overlapping runs of setupBlockingSchedule, under OverlapSpec.           *)

\* A run has just created its alarms, no run is under way and no message
\* waits.
SetupsDone ==
    /\ lastOp = "setup:created"
    /\ worker.requests = 0
    /\ \A run \in SetupRuns : worker.setup[run].pc = "idle"

\* C27: when runs of setupBlockingSchedule overlap while the schedule is
\* enabled, then once all have completed the two alarms blockingStart and
\* blockingEnd exist and were created for the schedule stored last, not for
\* one an earlier run had read.
C27_AlarmsFromLastStored ==
    (SetupsDone /\ Truthy(StoredSchedule.v.enabled)) =>
        \A n \in AlarmNames :
            alarms[n].present /\ alarms[n].from = StoredSchedule

\* All runs are done and the alarms are those of a schedule that is no
\* longer the stored one.
C27_Witness ==
    /\ SetupsDone
    /\ Truthy(StoredSchedule.v.enabled)
    /\ \A n \in AlarmNames : alarms[n].present
    /\ alarms["blockingStart"].from # StoredSchedule

-----------------------------------------------------------------------------
(* The unsaved-changes flag of the options page, under UnsavedSpec.        *)

\* C28: whenever hasUnsavedChanges is false and no change event of the
\* store waits for the page, the stored configuration equals currentConfig,
\* also after an edit made while a save was under way and after a repair
\* by validateAndFixConfig on load.
C28_FlagClearMeansStored ==
    (options.open /\ ~options.hasUnsavedChanges /\ ~options.event) =>
        storage.config = options.currentConfig

\* A save has completed and cleared the flag over an edit that was made
\* after the store was written.
C28_Witness ==
    /\ lastOp = "saveSettings:done"
    /\ ~options.hasUnsavedChanges
    /\ ~options.event
    /\ storage.config # options.currentConfig
    /\ storage.config = validateAndFixConfig(storage.config)

-----------------------------------------------------------------------------
(* The list of ignored blocks, under IgnoreSpec.                           *)

\* The listener run stores its list in this step.
Stores(run) ==
    /\ worker.ignore[run].pc = "read"
    /\ worker'.ignore[run].pc = "idle"
    /\ lastOp' = "userIgnoredBlock:stored"

IsSuffix(s, t) ==
    /\ Len(s) <= Len(t)
    /\ \A i \in 1..Len(s) : s[i] = t[Len(t) - Len(s) + i]

Ascending(s) == \A i \in 1..(Len(s) - 1) : s[i] < s[i + 1]

\* C29: the stored list of ignored blocks never has more than 100 entries;
\* the list a listener writes ends with the entry of its message, holds
\* the entries it read before it in their order, and has lost only the
\* oldest of them, and only as many as exceed 100.
C29_Last100Kept ==
    /\ [](Len(worker.ignoredBlocks) <= IgnoredBlocksKept)
    /\ [][\A run \in IgnoreRuns :
            Stores(run) =>
                LET written == worker'.ignoredBlocks
                IN  /\ written = worker.ignore[run].ignoredBlocks
                    /\ Len(written) >= 1
                    /\ Ascending(written)
                    /\ Len(written) <= IgnoredBlocksKept]_vars
    /\ [][\A run \in IgnoreRuns :
            (worker.ignore[run].pc = "idle" /\ worker'.ignore[run].pc = "read") =>
                LET seen == Append(worker.ignoredBlocks,
                                   IgnoredBlocksKept + worker.arrived + 1)
                    kept == worker'.ignore[run].ignoredBlocks
                IN  /\ IsSuffix(kept, seen)
                    /\ Len(kept) = IF Len(seen) > IgnoredBlocksKept
                                   THEN IgnoredBlocksKept ELSE Len(seen)]_vars

\* A listener has stored a full list from which the oldest entry was
\* dropped.
C29_Witness ==
    /\ lastOp = "userIgnoredBlock:stored"
    /\ Len(worker.ignoredBlocks) = IgnoredBlocksKept
    /\ worker.ignoredBlocks[1] > 1
    /\ worker.ignoredBlocks[IgnoredBlocksKept] > IgnoredBlocksKept

-----------------------------------------------------------------------------
(* validateAndFixConfig as a function, under ValidateSpec.                 *)

IsTimeString(x) == x.t = "string" /\ isValidTimeString(x.v)
IsArray(x) == x.t = "array"
IsBoolean(x) == x.t = "boolean"

\* The output has every field in its proper form.
WellFormedOutput(out) ==
    /\ IsArray(out.v.blockedSites)
    /\ out.v.schedule.t = "object"
    /\ IsBoolean(out.v.schedule.v.enabled)
    /\ IsTimeString(out.v.schedule.v.startTime)
    /\ IsTimeString(out.v.schedule.v.endTime)
    /\ IsArray(out.v.schedule.v.workDays)
    /\ IsArray(out.v.despairMessages) /\ Len(out.v.despairMessages.v) > 0
    /\ IsBoolean(out.v.enableTTS)

\* Fields of the input that are in their proper form are those of the
\* output.
ProperFieldsKept(in, out) ==
    /\ IsArray(in.v.blockedSites) => out.v.blockedSites = in.v.blockedSites
    /\ in.v.schedule.t = "object" =>
          LET s == in.v.schedule.v
              o == out.v.schedule.v
          IN  /\ IsBoolean(s.enabled) => o.enabled = s.enabled
              /\ IsTimeString(s.startTime) => o.startTime = s.startTime
              /\ IsTimeString(s.endTime) => o.endTime = s.endTime
              /\ IsArray(s.workDays) => o.workDays = s.workDays
    /\ (IsArray(in.v.despairMessages) /\ Len(in.v.despairMessages.v) > 0) =>
          out.v.despairMessages = in.v.despairMessages
    /\ IsBoolean(in.v.enableTTS) => out.v.enableTTS = in.v.enableTTS

\* C30: for every configuration object the output of validateAndFixConfig
\* has an array blockedSites, a schedule with a boolean enabled, startTime
\* and endTime that are HH:MM strings and an array workDays, a non-empty
\* array despairMessages and a boolean enableTTS; fields already in that
\* form are unchanged; and validating the output again returns it.
C30_ValidatedIsWellFormed ==
    [][lastOp' = "validateAndFixConfig" =>
          /\ WellFormedOutput(options'.currentConfig)
          /\ ProperFieldsKept(options.currentConfig, options'.currentConfig)
          /\ validateAndFixConfig(options'.currentConfig) = options'.currentConfig
      ]_vars

\* A validated configuration whose startTime is an array.
C30_Witness ==
    /\ lastOp = "validateAndFixConfig"
    /\ options.currentConfig.v.schedule.v.startTime = Arr(<<Str("09:00")>>)
====
